---- MODULE Spec2Model ----
(***************************************************************************)
(* Model of the QAI agent execution engine (src/src/agent/mod.rs and       *)
(* src/src/agent/tools.rs): the tag parser, the plain-text recovery        *)
(* heuristic and the ReAct loop of ReActAgent::run.                        *)
(*                                                                         *)
(* Text.  A Rust String is modelled as a sequence of tokens.  Every token  *)
(* is one literal piece of text: a single character (">", "\"", "\n",      *)
(* " ", ":", "a", the two-byte character "U+00E9", the backtick written  *)
(* "BACKTICK") or a literal word                                           *)
(* that the code searches for or compares with as a whole ("<think",       *)
(* "</think", "name=", "shell", ...).  A pattern the code searches for is  *)
(* a sequence of tokens ("</think>" is <<"</think", ">">>), so str::find   *)
(* is a search for a contiguous sub-sequence, and every slice the code     *)
(* takes falls on a token boundary.  Positions are 1-based token indexes,  *)
(* 0 stands for Option::None.  ByteLen gives the UTF-8 length of a token,  *)
(* which is what str::len and the byte slice in truncate work on.          *)
(***************************************************************************)
EXTENDS Integers, Sequences, FiniteSets, TLC

\* ---------------------------------------------------------------- bounds
\* The step budget of the modelled agent (the pub field max_steps).
max_steps == 3

\* ------------------------------------------------------ program constants
\* truncate(&input, 120) and truncate(&observation, 800) in run.
TOOL_INPUT_MAX == 120
OBSERVATION_MAX == 800

\* ------------------------------------------------------------ text basics
None == [some |-> FALSE]
Some(v) == [some |-> TRUE, val |-> v]

SetMin(S) == CHOOSE x \in S : \A y \in S : x <= y
SetMax(S) == CHOOSE x \in S : \A y \in S : x >= y

\* UTF-8 length of one token (the literal text the token stands for).
ByteLen(tok) ==
  CASE tok = "U+00E9" -> 2
    [] tok = "a*119"  -> 119
    [] tok = "a*799"  -> 799
    [] tok \in {">", "\"", "\n", " ", ":", "BACKTICK", "a", "b", "]", "f", "/"} -> 1
    [] tok \in {"<<<", "===", ">>>"} -> 3
    [] tok = "<think" -> 6
    [] tok = "</think" -> 7
    [] tok = "<tool" -> 5
    [] tok = "</tool" -> 6
    [] tok = "<answer" -> 7
    [] tok = "</answer" -> 8
    [] tok = "name=" -> 5
    [] tok \in {"shell", "hello"} -> 5
    [] tok = "answer" -> 6
    [] tok \in {"git_add", "git_log"} -> 7
    [] tok = "git_diff" -> 8
    [] tok \in {"read_file", "edit_file"} -> 9
    [] tok \in {"write_file", "web_search", "git_status", "git_commit"} -> 10
    [] tok = "grep_search" -> 11
    [] tok = "[error: " -> 8
    [] tok = "[LLM error: " -> 12
    [] tok = "<observation>" -> 13
    [] tok = "</observation>" -> 14
    [] tok = "[unknown tool: " -> 15
    [] tok = "__AGENT_ANSWER__:" -> 17
    [] tok = "builder error" -> 13
    [] tok = "error sending request" -> 21
    [] tok = "No such file or directory" -> 25

\* A token that is one multi-byte character: no byte position strictly inside
\* it is a char boundary.  Every other token is ASCII text.
IsMultiByteChar(tok) == tok = "U+00E9"

RECURSIVE len(_)
\* str::len: the length in bytes.
len(s) == IF s = <<>> THEN 0 ELSE ByteLen(Head(s)) + len(Tail(s))

\* str::is_char_boundary(n) for 0 <= n: n is the end of the text, or the byte
\* offset n does not fall strictly inside a multi-byte character.
is_char_boundary(s, n) ==
  \/ n = 0
  \/ n = len(s)
  \/ /\ n < len(s)
     /\ \A i \in 1..Len(s) :
          LET before == len(SubSeq(s, 1, i - 1))
          IN  (before < n /\ n < before + ByteLen(s[i])) => ~IsMultiByteChar(s[i])

IsWhitespace(tok) == tok \in {" ", "\n"}

\* str::trim_start / str::trim.
trim_start(s) ==
  LET keep == {i \in 1..Len(s) : ~IsWhitespace(s[i])}
  IN  IF keep = {} THEN <<>> ELSE SubSeq(s, SetMin(keep), Len(s))

trim(s) ==
  LET keep == {i \in 1..Len(s) : ~IsWhitespace(s[i])}
  IN  IF keep = {} THEN <<>> ELSE SubSeq(s, SetMin(keep), SetMax(keep))

RECURSIVE find_from(_, _, _)
\* The first occurrence of pat in text at index i or later, 0 when there is none.
find_from(text, pat, i) ==
  IF i + Len(pat) - 1 > Len(text) THEN 0
  ELSE IF SubSeq(text, i, i + Len(pat) - 1) = pat THEN i
  ELSE find_from(text, pat, i + 1)

\* str::find(pat): index of the first occurrence, 0 when there is none.
find(text, pat) == find_from(text, pat, 1)

starts_with(text, pat) ==
  Len(pat) <= Len(text) /\ SubSeq(text, 1, Len(pat)) = pat

\* text[i..] of Rust, for a 1-based token index i.
From(text, i) == SubSeq(text, i, Len(text))

RECURSIVE Lines(_)
\* str::lines on a text without "\r": split at "\n", no final empty line.
Lines(text) ==
  IF text = <<>> THEN <<>>
  ELSE LET nl == find(text, <<"\n">>)
       IN  IF nl = 0 THEN <<text>>
           ELSE <<SubSeq(text, 1, nl - 1)>> \o Lines(From(text, nl + 1))

RECURSIVE JoinLines(_)
\* Vec<&str>::join("\n").
JoinLines(ls) ==
  IF ls = <<>> THEN <<>>
  ELSE IF Len(ls) = 1 THEN ls[1]
  ELSE ls[1] \o <<"\n">> \o JoinLines(Tail(ls))

\* ------------------------------------------------------------ tag parsing
OpenTag == [think |-> "<think", tool |-> "<tool", answer |-> "<answer"]
CloseTag == [think |-> <<"</think", ">">>, tool |-> <<"</tool", ">">>,
             answer |-> <<"</answer", ">">>]

find_tag_start(text, tag) == find(text, <<OpenTag[tag]>>)

\* Mutant of extract_tag: without a closing tag the body runs to the end of
\* the text.
extract_tag_ToEnd(text, tag) ==
  LET start == find(text, <<OpenTag[tag]>>)
      gt    == IF start = 0 THEN 0 ELSE find(From(text, start), <<">">>)
      tag_end == gt + start
      end   == find(text, CloseTag[tag])
  IN  IF start = 0 \/ gt = 0 THEN None
      ELSE IF end = 0 THEN Some(SubSeq(text, tag_end, Len(text)))
      ELSE IF end < tag_end THEN None
      ELSE Some(SubSeq(text, tag_end, end - 1))

extract_tag(text, tag) ==
  LET start == find(text, <<OpenTag[tag]>>)
      gt    == IF start = 0 THEN 0 ELSE find(From(text, start), <<">">>)
      tag_end == gt + start
      end   == find(text, CloseTag[tag])
  IN  IF start = 0 \/ gt = 0 \/ end = 0 THEN None
      ELSE IF end < tag_end THEN None
      ELSE Some(SubSeq(text, tag_end, end - 1))

\* format!("{attr}=\"") as tokens.
AttrNeedle == [name |-> <<"name=", "\"">>]

extract_attr(text, attr) ==
  LET needle == AttrNeedle[attr]
      at     == find(text, needle)
      start  == at + Len(needle)
      q      == IF at = 0 THEN 0 ELSE find(From(text, start), <<"\"">>)
  IN  IF at = 0 \/ q = 0 THEN None
      ELSE Some(SubSeq(text, start, start + q - 2))

extract_attr_in(text, tag, attr) ==
  LET tag_start == find(text, <<OpenTag[tag]>>)
      gt        == IF tag_start = 0 THEN 0 ELSE find(From(text, tag_start), <<">">>)
      tag_end   == tag_start + gt - 1
  IN  IF tag_start = 0 \/ gt = 0 THEN None
      ELSE extract_attr(SubSeq(text, tag_start, tag_end - 1), attr)

Thought == [kind |-> "Thought"]
ToolCall(name, input) == [kind |-> "ToolCall", name |-> name, input |-> input]
Answer(text) == [kind |-> "Answer", text |-> text]

\* Mutant of EarliestTag: an answer tag anywhere in the text is taken first.
EarliestTag_AnswerFirst(remaining) ==
  LET cands == {t \in {"think", "tool", "answer"} : find_tag_start(remaining, t) # 0}
  IN  IF cands = {} THEN "none"
      ELSE IF "answer" \in cands THEN "answer"
      ELSE CHOOSE t \in cands :
             \A u \in cands : find_tag_start(remaining, t) <= find_tag_start(remaining, u)

\* The tag that opens first in the text (min_by_key over the three positions),
\* "none" when no tag opens.
EarliestTag(remaining) ==
  LET cands == {t \in {"think", "tool", "answer"} : find_tag_start(remaining, t) # 0}
  IN  IF cands = {} THEN "none"
      ELSE CHOOSE t \in cands :
             \A u \in cands : find_tag_start(remaining, t) <= find_tag_start(remaining, u)

\* The text after the first closing tag (remaining = &remaining[end + close.len()..]).
AfterClose(remaining, tag) ==
  From(remaining, find(remaining, CloseTag[tag]) + Len(CloseTag[tag]))

\* Mutant of ToolStep: the name attribute is ignored, the first body line
\* always names the tool.
ToolStep_FirstLine(remaining, inner) ==
  LET body == trim(inner)
      nl   == find(body, <<"\n">>)
      name == trim(IF nl = 0 THEN body ELSE SubSeq(body, 1, nl - 1))
      input == IF nl = 0 THEN <<>> ELSE trim(From(body, nl + 1))
  IN  IF name = <<>> THEN None
      ELSE Some(ToolCall(name, input))

\* Mutant of ToolStep: an empty derived name is not checked for.
ToolStep_EmptyName(remaining, inner) ==
  LET name_attr == extract_attr_in(remaining, "tool", "name")
      body == trim(inner)
      nl   == find(body, <<"\n">>)
      name == trim(IF nl = 0 THEN body ELSE SubSeq(body, 1, nl - 1))
      input == IF nl = 0 THEN <<>> ELSE trim(From(body, nl + 1))
  IN  IF name_attr.some THEN Some(ToolCall(name_attr.val, trim(inner)))
      ELSE Some(ToolCall(name, input))

\* The ToolCall of a <tool> tag whose body is inner: the name attribute, or
\* the first body line; None when the derived name is empty.
ToolStep(remaining, inner) ==
  LET name_attr == extract_attr_in(remaining, "tool", "name")
      body == trim(inner)
      nl   == find(body, <<"\n">>)
      name == trim(IF nl = 0 THEN body ELSE SubSeq(body, 1, nl - 1))
      input == IF nl = 0 THEN <<>> ELSE trim(From(body, nl + 1))
  IN  IF name_attr.some THEN Some(ToolCall(name_attr.val, trim(inner)))
      ELSE IF name = <<>> THEN None
      ELSE Some(ToolCall(name, input))

RECURSIVE parse_loop(_, _)
parse_loop(steps, remaining) ==
  LET earliest == EarliestTag(remaining)
  IN  CASE earliest = "none" -> steps
        [] earliest = "think" ->
             IF extract_tag(remaining, "think").some
             THEN parse_loop(Append(steps, Thought), AfterClose(remaining, "think"))
             ELSE steps
        [] earliest = "tool" ->
             LET inner == extract_tag(remaining, "tool")
             IN  IF ~inner.some THEN steps
                 ELSE LET step == ToolStep(remaining, inner.val)
                      IN  IF ~step.some THEN steps
                          ELSE parse_loop(Append(steps, step.val),
                                          AfterClose(remaining, "tool"))
        [] earliest = "answer" ->
             LET inner == extract_tag(remaining, "answer")
             IN  IF inner.some THEN Append(steps, Answer(trim(inner.val)))
                 ELSE steps

\* Mutant of parse_steps: each step is put in front of the earlier ones.
parse_steps_Reversed(text) ==
  LET ss == parse_loop(<<>>, text)
  IN  [i \in 1..Len(ss) |-> ss[Len(ss) + 1 - i]]

\* Mutant of parse_steps: a text that yields no step is returned as an Answer.
parse_steps_PlainAsAnswer(text) ==
  IF parse_loop(<<>>, text) = <<>> THEN <<Answer(trim(text))>>
  ELSE parse_loop(<<>>, text)

parse_steps(text) == parse_loop(<<>>, text)

\* ---------------------------------------------------- plain-text recovery
KNOWN_TOOLS == <<"read_file", "write_file", "edit_file", "shell", "grep_search",
                 "web_search", "git_status", "git_diff", "git_add", "git_commit",
                 "git_log">>

IsKnownTool(name) == \E i \in 1..Len(KNOWN_TOOLS) : name = <<KNOWN_TOOLS[i]>>

RECURSIVE trim_start_matches(_, _)
\* str::trim_start_matches(pat): removes every repeated leading pat.
trim_start_matches(s, pat) ==
  IF pat # <<>> /\ starts_with(s, pat)
  THEN trim_start_matches(From(s, Len(pat) + 1), pat)
  ELSE s

\* Mutant of trim_matches: only the leading occurrences are removed.
trim_matches_Start(s, c) ==
  LET keep == {i \in 1..Len(s) : s[i] # c}
  IN  IF keep = {} THEN <<>> ELSE SubSeq(s, SetMin(keep), Len(s))

\* str::trim_matches(c) for a one-character token c.
trim_matches(s, c) ==
  LET keep == {i \in 1..Len(s) : s[i] # c}
  IN  IF keep = {} THEN <<>> ELSE SubSeq(s, SetMin(keep), SetMax(keep))

\* Pattern 2 of try_recover_plain_tool on one trimmed line: the tool whose
\* "tool:" or "tool :" prefix the line starts with, first in KNOWN_TOOLS order.
PrefixTool(l) ==
  LET hits == {i \in 1..Len(KNOWN_TOOLS) :
                 \/ starts_with(l, <<KNOWN_TOOLS[i], ":">>)
                 \/ starts_with(l, <<KNOWN_TOOLS[i], " ", ":">>)}
  IN  IF hits = {} THEN 0 ELSE SetMin(hits)

try_recover_plain_tool(text) ==
  LET trimmed    == trim(text)
      lines      == Lines(trimmed)
      first_line == trim(lines[1])
      tool_name  == trim(trim_matches(first_line, "BACKTICK"))
      hitLines   == {i \in 1..Len(lines) : PrefixTool(trim(lines[i])) # 0}
  IN  IF lines = <<>> THEN None
      ELSE IF IsKnownTool(tool_name)
      THEN Some(ToolCall(tool_name, trim(JoinLines(Tail(lines)))))
      ELSE IF hitLines = {} THEN None
      ELSE LET l    == trim(lines[SetMin(hitLines)])
               tool == KNOWN_TOOLS[PrefixTool(l)]
           IN  Some(ToolCall(<<tool>>,
                      trim(trim_start_matches(trim_start_matches(l, <<tool>>), <<":">>))))

\* ------------------------------------------------------------- truncate
\* The result of truncate(s, max): the text unchanged, or its first max bytes
\* followed by the truncation marker; panic when the byte slice &s[..max]
\* does not end on a char boundary.
truncate(s, max) ==
  IF len(s) <= max THEN [panic |-> FALSE, text |-> s, bytes |-> len(s), truncated |-> FALSE]
  ELSE IF is_char_boundary(s, max)
  THEN [panic |-> FALSE, text |-> s, bytes |-> max, truncated |-> TRUE]
  ELSE [panic |-> TRUE]

\* ------------------------------------------------------------- dispatch
Ok(v) == [ok |-> TRUE, val |-> v]
Err(e) == [ok |-> FALSE, err |-> e]

\* What the tools of the registry can report back: a short output, and outputs
\* longer than 800 bytes whose byte 800 is, or is not, a char boundary.
ToolOutputs ==
  { <<"a">>,
    <<"a*799", "a", "a">>,
    <<"a*799", "U+00E9", "a">> }

\* Mutant of ToolArms: dispatch has no arm for shell.
ToolArms_WithoutShell ==
  { <<"read_file">>, <<"write_file">>, <<"edit_file">>, <<"git_status">>, <<"git_diff">>,
    <<"git_add">>, <<"git_commit">>, <<"git_log">>, <<"grep_search">>, <<"web_search">> }

\* The names tools::dispatch routes to a tool implementation: its match arms
\* but the answer arm and the catch-all.
ToolArms ==
  { <<"read_file">>, <<"write_file">>, <<"edit_file">>, <<"git_status">>, <<"git_diff">>,
    <<"git_add">>, <<"git_commit">>, <<"git_log">>, <<"shell">>, <<"grep_search">>,
    <<"web_search">> }

\* The tools whose implementation can return Err (the ? in write_file and in
\* web_search); every other tool returns Ok.
FallibleTools == { <<"write_file">>, <<"web_search">> }

\* The possible results of tools::dispatch(tool, input).  The built-in tools
\* act on the file system, processes and the network: their output is the
\* environment's choice.
dispatch(tool, input) ==
  IF tool \in ToolArms
  THEN {Ok(o) : o \in ToolOutputs}
         \cup (IF tool \in FallibleTools THEN {Err(<<"No such file or directory">>)} ELSE {})
  ELSE IF tool = <<"answer">> THEN {Ok(<<"__AGENT_ANSWER__:">> \o input)}
  ELSE {Ok(<<"[unknown tool: ">> \o tool \o <<"]">>)}

\* ------------------------------------------------- the file tools
\* The file system the tools act on: every name is absent, a directory or a
\* file with a content.  Paths are token sequences, "/" separates components.
Absent == [kind |-> "absent"]
Dir == [kind |-> "dir"]
File(content) == [kind |-> "file", content |-> content]

Names == { <<"f">>, <<"f", "/", "g">> }

\* Path::parent: the path without its last component, empty for a bare name.
parent(path) ==
  LET slashes == {i \in 1..Len(path) : path[i] = "/"}
  IN  IF slashes = {} THEN <<>> ELSE SubSeq(path, 1, SetMax(slashes) - 1)

\* std::fs::read_to_string.
read_to_string(fsys, path) ==
  IF path \notin Names THEN Err(<<"No such file or directory">>)
  ELSE IF fsys[path].kind = "file" THEN Ok(fsys[path].content)
  ELSE IF fsys[path].kind = "dir" THEN Err(<<"Is a directory">>)
  ELSE Err(<<"No such file or directory">>)

\* std::fs::create_dir_all: the result and the file system after it.
create_dir_all(fsys, dir) ==
  IF dir \notin Names THEN [result |-> Err(<<"Permission denied">>), fs |-> fsys]
  ELSE IF fsys[dir].kind = "file" THEN [result |-> Err(<<"File exists">>), fs |-> fsys]
  ELSE [result |-> Ok(<<>>), fs |-> [fsys EXCEPT ![dir] = Dir]]

\* std::fs::write: the result and the file system after it.
fs_write(fsys, path, content) ==
  IF path \notin Names
  THEN [result |-> Err(<<"No such file or directory">>), fs |-> fsys]
  ELSE IF fsys[path].kind = "dir"
  THEN [result |-> Err(<<"Is a directory">>), fs |-> fsys]
  ELSE IF parent(path) # <<>> /\ fsys[parent(path)].kind # "dir"
  THEN [result |-> Err(<<"No such file or directory">>), fs |-> fsys]
  ELSE [result |-> Ok(<<>>), fs |-> [fsys EXCEPT ![path] = File(content)]]

\* tools::read_file.
read_file(fsys, input) ==
  LET path == trim(input)
      r    == read_to_string(fsys, path)
  IN  IF r.ok THEN Ok(r.val)
      ELSE Ok(<<"[read_file error: ">> \o r.err \o <<"]">>)

\* Mutant of write_file: the content is trimmed before it is written.
write_file_TrimContent(fsys, input) ==
  LET inp  == trim_start(input)
      nl   == find(inp, <<"\n">>)
      path == trim(SubSeq(inp, 1, nl - 1))
      content == trim(From(inp, nl + 1))
      made == IF parent(path) # <<>> THEN create_dir_all(fsys, parent(path))
              ELSE [result |-> Ok(<<>>), fs |-> fsys]
      w    == fs_write(made.fs, path, content)
  IN  IF nl = 0
      THEN [result |-> Ok(<<"[write_file error: input must be '<path>\\n<content>']">>),
            fs |-> fsys]
      ELSE IF ~made.result.ok
      THEN [result |-> Err(<<"[write_file error creating dirs: ">> \o made.result.err \o <<"]">>),
            fs |-> fsys]
      ELSE IF w.result.ok
      THEN [result |-> Ok(<<"[write_file: wrote ", ToString(len(content)), " bytes to ">>
                            \o path \o <<"]">>),
            fs |-> w.fs]
      ELSE [result |-> Ok(<<"[write_file error: ">> \o w.result.err \o <<"]">>), fs |-> w.fs]

\* tools::write_file: the result and the file system after it.
write_file(fsys, input) ==
  LET inp  == trim_start(input)
      nl   == find(inp, <<"\n">>)
      path == trim(SubSeq(inp, 1, nl - 1))
      content == From(inp, nl + 1)
      made == IF parent(path) # <<>> THEN create_dir_all(fsys, parent(path))
              ELSE [result |-> Ok(<<>>), fs |-> fsys]
      w    == fs_write(made.fs, path, content)
  IN  IF nl = 0
      THEN [result |-> Ok(<<"[write_file error: input must be '<path>\\n<content>']">>),
            fs |-> fsys]
      ELSE IF ~made.result.ok
      THEN [result |-> Err(<<"[write_file error creating dirs: ">> \o made.result.err \o <<"]">>),
            fs |-> fsys]
      ELSE IF w.result.ok
      THEN [result |-> Ok(<<"[write_file: wrote ", ToString(len(content)), " bytes to ">>
                            \o path \o <<"]">>),
            fs |-> w.fs]
      ELSE [result |-> Ok(<<"[write_file error: ">> \o w.result.err \o <<"]">>), fs |-> w.fs]

\* str::strip_suffix: None when the text does not end with suffix.
strip_suffix(text, suffix) ==
  IF Len(suffix) <= Len(text)
     /\ SubSeq(text, Len(text) - Len(suffix) + 1, Len(text)) = suffix
  THEN Some(SubSeq(text, 1, Len(text) - Len(suffix)))
  ELSE None

RECURSIVE replacen_All(_, _, _)
\* Mutant of replacen: every occurrence is replaced (str::replace).
replacen_All(original, search, replacement) ==
  LET at == find(original, search)
  IN  IF at = 0 \/ search = <<>> THEN original
      ELSE SubSeq(original, 1, at - 1) \o replacement
             \o replacen_All(From(original, at + Len(search)), search, replacement)

\* str::replacen(search, replacement, 1): the first occurrence replaced.
replacen(original, search, replacement) ==
  LET at == find(original, search)
  IN  IF at = 0 THEN original
      ELSE SubSeq(original, 1, at - 1) \o replacement
             \o From(original, at + Len(search))

\* tools::edit_file: the result and the file system after it.
edit_file(fsys, input) ==
  LET inp  == trim_start(input)
      nl   == find(inp, <<"\n">>)
      path == trim(IF nl = 0 THEN inp ELSE SubSeq(inp, 1, nl - 1))
      rest == IF nl = 0 THEN <<>> ELSE From(inp, nl + 1)
      after_open == From(rest, 3)
      mid  == find(after_open, <<"\n", "===", "\n">>)
      search == SubSeq(after_open, 1, mid - 1)
      after_eq == From(after_open, mid + 3)
      replacement ==
        IF strip_suffix(after_eq, <<"\n", ">>>">>).some
        THEN strip_suffix(after_eq, <<"\n", ">>>">>).val
        ELSE IF strip_suffix(after_eq, <<">>>">>).some
        THEN strip_suffix(after_eq, <<">>>">>).val
        ELSE after_eq
      r == read_to_string(fsys, path)
      updated == replacen(r.val, search, replacement)
      w == fs_write(fsys, path, updated)
  IN  IF ~starts_with(rest, <<"<<<", "\n">>)
      THEN [result |-> Ok(<<"[edit_file error: input must start with path then '<<<']">>),
            fs |-> fsys]
      ELSE IF mid = 0
      THEN [result |-> Ok(<<"[edit_file error: missing '===' separator]">>), fs |-> fsys]
      ELSE IF ~r.ok
      THEN [result |-> Ok(<<"[edit_file error reading ">> \o path \o <<": ">> \o r.err \o <<"]">>),
            fs |-> fsys]
      ELSE IF find(r.val, search) = 0
      THEN [result |-> Ok(<<"[edit_file error: search string not found in ">> \o path \o <<"]">>),
            fs |-> fsys]
      ELSE IF w.result.ok
      THEN [result |-> Ok(<<"[edit_file: applied edit to ">> \o path \o <<"]">>), fs |-> w.fs]
      ELSE [result |-> Ok(<<"[edit_file error writing ">> \o path \o <<": ">> \o w.result.err
                            \o <<"]">>),
            fs |-> w.fs]

\* --------------------------------------------- tui::api::stream_message
\* A JSON value as stream_message reads it: what each of the four lookups
\* v["delta"]["text"].as_str(), v["choices"][0]["delta"]["content"].as_str(),
\* v["message"]["content"].as_str() and v["done"].as_bool() gives.
Json(delta_text, choices_content, message_content, done) ==
  [delta_text |-> delta_text, choices_content |-> choices_content,
   message_content |-> message_content, done |-> done]

\* The payload of a line: a JSON value, or a text that is not JSON.
JsonText(v) == [json |-> TRUE, v |-> v]
PlainText(t) == [json |-> FALSE, text |-> t]

\* A line of a chunk: with or without the prefix "data: ", then the payload.
DataLine(payload) == [data_prefix |-> TRUE, payload |-> payload]
BareLine(payload) == [data_prefix |-> FALSE, payload |-> payload]

\* The lines the three dialects send.
AnthropicDelta(t) == DataLine(JsonText(Json(Some(t), None, None, None)))
OpenAiDelta(t) == DataLine(JsonText(Json(None, Some(t), None, None)))
OllamaMessage(t, done) == BareLine(JsonText(Json(None, None, Some(t), Some(done))))
DoneLine == DataLine(PlainText(<<"[DONE]">>))

\* Lines that are not of any dialect: a data line whose payload is not JSON,
\* a line of another protocol (an SSE "event:" line), an empty line.
BrokenDataLine == DataLine(PlainText(<<"{oops">>))
EventLine == BareLine(PlainText(<<"event: ping">>))
EmptyLine == BareLine(PlainText(<<>>))

\* The JSON texts of the dialects around the delta text.
AnthropicOpen == "{\"delta\":{\"text\":\""
AnthropicClose == "\"}}"
OpenAiOpen == "{\"choices\":[{\"delta\":{\"content\":\""
OpenAiClose == "\"}}]}"
OllamaOpen == "{\"message\":{\"content\":\""
OllamaCloseFalse == "\"},\"done\":false}"
OllamaCloseTrue == "\"},\"done\":true}"

\* The characters of a delta text.
IsPlainChars(t) == \A i \in 1..Len(t) : t[i] \in {"a", "b"}

\* What a text parses to as JSON: the value of a whole JSON object of one of
\* the dialects, None for any other text (a part of an object is no JSON).
ParseJson(t) ==
  LET n     == Len(t)
      inner == SubSeq(t, 2, n - 1)
  IN  IF n < 2 \/ ~IsPlainChars(inner) THEN None
      ELSE IF t[1] = AnthropicOpen /\ t[n] = AnthropicClose
      THEN Some(Json(Some(inner), None, None, None))
      ELSE IF t[1] = OpenAiOpen /\ t[n] = OpenAiClose
      THEN Some(Json(None, Some(inner), None, None))
      ELSE IF t[1] = OllamaOpen /\ t[n] \in {OllamaCloseFalse, OllamaCloseTrue}
      THEN Some(Json(None, None, Some(inner), Some(t[n] = OllamaCloseTrue)))
      ELSE None

\* One line of text as the loops read it: whether it has the prefix "data: ",
\* and its payload, JSON or not.
LineOf(t) ==
  LET prefixed == t # <<>> /\ t[1] = "data: "
      rest     == IF prefixed THEN Tail(t) ELSE t
      payload  == IF ParseJson(rest).some THEN JsonText(ParseJson(rest).val)
                  ELSE PlainText(rest)
  IN  [data_prefix |-> prefixed, payload |-> payload]

\* String::from_utf8_lossy(&bytes).lines(): the lines of one chunk.
TextLines(bytes) == [i \in 1..Len(Lines(bytes)) |-> LineOf(Lines(bytes)[i])]

\* The text of a JSON value of one of the dialects.
JsonBytes(v) ==
  IF v.delta_text.some THEN <<AnthropicOpen>> \o v.delta_text.val \o <<AnthropicClose>>
  ELSE IF v.choices_content.some
  THEN <<OpenAiOpen>> \o v.choices_content.val \o <<OpenAiClose>>
  ELSE <<OllamaOpen>> \o v.message_content.val
         \o <<IF v.done.val THEN OllamaCloseTrue ELSE OllamaCloseFalse>>

\* The text of a line as a server writes it.
LineBytes(line) ==
  (IF line.data_prefix THEN <<"data: ">> ELSE <<>>)
    \o (IF line.payload.json THEN JsonBytes(line.payload.v) ELSE line.payload.text)

RECURSIVE BytesOf(_)
\* The text of lines, each ended by a line break.
BytesOf(lines) ==
  IF lines = <<>> THEN <<>>
  ELSE LineBytes(Head(lines)) \o <<"\n">> \o BytesOf(Tail(lines))

\* line.strip_prefix("data: "): the payload, None without the prefix.
strip_prefix(line) == IF line.data_prefix THEN Some(line.payload) ELSE None

\* serde_json::from_str::<Value>(data).
from_str(data) == IF data.json THEN Ok(data.v) ELSE Err(<<"expected value">>)

\* data == "[DONE]" / data.is_empty().
IsDone(data) == ~data.json /\ data.text = <<"[DONE]">>
is_empty(data) == ~data.json /\ data.text = <<>>

\* The token of an Anthropic data payload: the delta text when it is JSON and
\* has one.
AnthropicToken(data) ==
  IF from_str(data).ok /\ from_str(data).val.delta_text.some
  THEN <<Some(from_str(data).val.delta_text.val)>>
  ELSE <<>>

RECURSIVE AnthropicLines(_)
\* The Anthropic branch on the lines of one chunk: what it sends on tx.
AnthropicLines(lines) ==
  IF lines = <<>> THEN <<>>
  ELSE LET data == strip_prefix(Head(lines))
       IN  IF ~data.some THEN AnthropicLines(Tail(lines))
           ELSE IF IsDone(data.val) THEN <<>>
           ELSE AnthropicToken(data.val) \o AnthropicLines(Tail(lines))

\* The token of a payload in the OpenAI-compatible branch: the OpenAI delta
\* when there is one, else the Ollama message content; never an empty text.
OpenAiToken(v) ==
  IF v.choices_content.some
  THEN (IF v.choices_content.val # <<>> THEN <<Some(v.choices_content.val)>> ELSE <<>>)
  ELSE IF v.message_content.some
  THEN (IF v.message_content.val # <<>> THEN <<Some(v.message_content.val)>> ELSE <<>>)
  ELSE <<>>

\* v["done"].as_bool().unwrap_or(false).
IsDoneFlag(v) == v.done.some /\ v.done.val

RECURSIVE OpenAiLines_BrokenLineBreaks(_)
\* Mutant of OpenAiLines: a line that is not JSON ends the chunk.
OpenAiLines_BrokenLineBreaks(lines) ==
  IF lines = <<>> THEN [sent |-> <<>>, returned |-> FALSE]
  ELSE LET line == Head(lines)
           data == IF strip_prefix(line).some THEN strip_prefix(line).val ELSE line.payload
           rest == OpenAiLines_BrokenLineBreaks(Tail(lines))
       IN  IF strip_prefix(line).some /\ IsDone(data) THEN rest
           ELSE IF is_empty(data) THEN rest
           ELSE IF ~from_str(data).ok THEN [sent |-> <<>>, returned |-> FALSE]
           ELSE IF IsDoneFlag(from_str(data).val)
           THEN [sent |-> OpenAiToken(from_str(data).val) \o <<None>>, returned |-> TRUE]
           ELSE [sent |-> OpenAiToken(from_str(data).val) \o rest.sent,
                 returned |-> rest.returned]

RECURSIVE OpenAiLines(_)
\* The OpenAI-compatible branch on the lines of one chunk: what it sends on
\* tx, and whether it has returned (the done flag) before the end of the chunk.
OpenAiLines(lines) ==
  IF lines = <<>> THEN [sent |-> <<>>, returned |-> FALSE]
  ELSE LET line == Head(lines)
           data == IF strip_prefix(line).some THEN strip_prefix(line).val ELSE line.payload
           rest == OpenAiLines(Tail(lines))
       IN  IF strip_prefix(line).some /\ IsDone(data) THEN rest
           ELSE IF is_empty(data) THEN rest
           ELSE IF ~from_str(data).ok THEN rest
           ELSE IF IsDoneFlag(from_str(data).val)
           THEN [sent |-> OpenAiToken(from_str(data).val) \o <<None>>, returned |-> TRUE]
           ELSE [sent |-> OpenAiToken(from_str(data).val) \o rest.sent,
                 returned |-> rest.returned]

\* Some(Ok(bytes)) of the select: the lines of the chunk through the branch
\* of the provider.
ChunkLines(provider, lines) ==
  IF provider = "Anthropic"
  THEN [sent |-> AnthropicLines(lines), returned |-> FALSE]
  ELSE OpenAiLines(lines)

\* The cancelled branch of the select: what it sends before it returns.
CancelSends_Nothing == <<>>
CancelSends == <<None>>

\* The caller's wrapper on Err(e): what it sends.
ErrorSends_NoTerminator(e) == <<Some(<<"\n[Error: ">> \o e \o <<"]">>)>>
ErrorSends(e) == <<Some(<<"\n[Error: ">> \o e \o <<"]">>), None>>

\* ------------------------------------------------------- ReActAgent::run
VARIABLES
  pc,             \* "call": top of the for loop; "parse": call_llm has returned;
                  \* "walk": inside for parsed_step in steps; "done": run has ended
  exit,           \* how run ended: "none" (running), "answer", "raw", "max_steps"
                  \* (the three return Ok(())), or "panic"
  step,           \* the loop variable of for step in 0..self.max_steps
  history,        \* Vec<(String, String)>: <<role, content>> turns
  chan,           \* every value sent on tx so far, in order
  llm_response,   \* the raw response of the current iteration
  steps,          \* the parsed steps of the response not yet walked
  remaining_resp, \* the cursor of the walk into the response
  nCalls,         \* number of call_llm calls made
  responses,      \* the raw responses of all iterations, in order
  acted,          \* for each response, the steps run derives from it
  dispatched,     \* every tools::dispatch call made: its name, input, result text
                  \* and the iteration (call number) that made it
  failedCall,     \* the error text when the latest call_llm returned Err, else None
  seed,           \* the history as seeded before the loop (never changes)
  prior_history,  \* the prior turns the caller passed to run
  arg,            \* the text a parsing function was called with
  ret,            \* what the function returned (None while it has not returned)
  fs,             \* the file system the tools act on
  req,            \* StreamRequest: provider, api_token, custom_url
  cancel,         \* whether the CancellationToken has been cancelled
  ready,          \* what the byte stream holds for stream.next(): the chunks
                  \* that have arrived (each with whether it arrived after the
                  \* cancellation), then the end of the stream or its error
  arrived,        \* number of chunks the server has sent
  closed,         \* whether the server has ended the stream
  seenTerminator, \* whether a consumed chunk held a terminator line
  consumed,       \* the bytes of the response read so far, all chunks together
  app,            \* App: the fields of the chat screen the key handlers and
                  \* the event loop read and write
  tasks,          \* the producer tasks spawned by Enter, in the order spawned
  stream_rx,      \* what the one channel of the event loop holds, in order
  cancelled,      \* the CancellationTokens cancel() has been called on
  clock,          \* the time, in seconds
  presses         \* ESC presses handled since the latest message was submitted

vars == <<pc, exit, step, history, chan, llm_response, steps, remaining_resp,
          nCalls, responses, acted, dispatched, failedCall, seed,
          prior_history, arg, ret, fs,
          req, cancel, ready, arrived, closed, seenTerminator, consumed,
          app, tasks, stream_rx, cancelled, clock, presses>>

\* The variables of the calls checked on their own: run reads prior_history
\* once, before the loop, and never touches the others (the effect of a tool
\* on the file system reaches run as the tool's output only).
callVars == <<prior_history, arg, ret, fs,
              req, cancel, ready, arrived, closed, seenTerminator, consumed,
              app, tasks, stream_rx, cancelled, clock, presses>>

\* The variables of stream_message, which runs in direct-chat mode only.
streamVars == <<req, cancel, ready, arrived, closed, seenTerminator, consumed>>

\* The variables of the chat screen and of the tasks it spawns.
tuiVars == <<app, tasks, stream_rx, cancelled, clock, presses>>

\* No streaming call is under way.
StreamIdle ==
  /\ req = [provider |-> "Ollama", api_token |-> <<>>, custom_url |-> <<>>]
  /\ cancel = FALSE
  /\ ready = <<>>
  /\ arrived = 0
  /\ closed = FALSE
  /\ seenTerminator = FALSE
  /\ consumed = <<>>

\* App::new, an event loop that has not started, and no task spawned.
TuiIdle ==
  /\ app = [screen |-> "Menu", streaming |-> FALSE, status |-> "",
            last_esc_at |-> None, cancel_token |-> 0, agent_mode |-> FALSE,
            messages |-> <<>>]
  /\ tasks = <<>>
  /\ stream_rx = <<>>
  /\ cancelled = {}
  /\ clock = 0
  /\ presses = 0

\* A file system without any of the names.
EmptyFs == [n \in Names |-> Absent]

\* Values sent on the channel: Some(text) carries one rendered notice.
NoneMsg == [some |-> FALSE]
SomeMsg(notice) == [some |-> TRUE, notice |-> notice]

StepHeader(n) == [kind |-> "Step", n |-> n]
RecoveringNotice == [kind |-> "Recovering"]
RawNotice(text) == [kind |-> "Raw", text |-> text]
ThoughtNotice(text) == [kind |-> "Thought", text |-> text]
PlainThoughtNotice(text) == [kind |-> "PlainThought", text |-> text]
ToolNotice(name, shown) == [kind |-> "Tool", name |-> name, input |-> shown]
ObservationNotice(shown) == [kind |-> "Observation", text |-> shown]
AnswerNotice(ans) == [kind |-> "Answer", text |-> ans]
MaxStepsNotice == [kind |-> "MaxSteps"]

\* The corrective user turn pushed after a think-only response.
NudgeText == <<"STOP. You must now output a tool call or answer using XML tags.">>

\* ---- inputs
task == <<"hello">>

\* Caller-supplied prior turns.
PriorHistories ==
  { <<>>,
    << <<"user", <<"a">>>>, <<"assistant", <<"b">>>>, <<"user", task>> >> }

ShellOpen == <<"<tool", " ", "name=", "\"", "shell", "\"", ">">>
ReadOpen == <<"<tool", " ", "name=", "\"", "read_file", "\"", ">">>
WriteOpen == <<"<tool", " ", "name=", "\"", "write_file", "\"", ">">>
AnswerToolOpen == <<"<tool", " ", "name=", "\"", "answer", "\"", ">">>
ToolClose == <<"</tool", ">">>
ThinkBlock == <<"<think", ">", "a", "</think", ">">>
AnswerBlock == <<"<answer", ">", " ", "b", "</answer", ">">>

\* The texts call_llm can return with Ok: well-formed, malformed and plain.
Responses ==
  { AnswerBlock,
    AnswerBlock \o ThinkBlock,
    ThinkBlock \o <<"\n">> \o AnswerBlock,
    ThinkBlock,
    ThinkBlock \o WriteOpen \o <<"a", "\n", "b">> \o ToolClose \o AnswerBlock,
    ReadOpen \o <<"a">> \o ToolClose \o ShellOpen \o <<"b">> \o ToolClose,
    ShellOpen \o <<"a">> \o ToolClose \o AnswerBlock \o ReadOpen \o <<"b">> \o ToolClose,
    AnswerToolOpen \o <<"b">> \o ToolClose,
    <<"a", " ", "b">>,
    <<"shell", "\n", "a">>,
    <<"<answer", ">", "b">>,
    ShellOpen \o <<"a*119", "a", "a">> \o ToolClose \o AnswerBlock,
    ShellOpen \o <<"a*119", "U+00E9", "a">> \o ToolClose,
    <<"<tool", ">", "a", "\n", "b">> \o ToolClose \o AnswerBlock }

\* The error texts call_llm can fail with (Display of a reqwest or serde_json
\* error: plain prose, no tag).
LlmErrors == { <<"error sending request">> }

\* ---- the pieces of run

\* Mutant of IsDuplicateTask: the role of the turn is not looked at.
IsDuplicateTask_AnyRole(turn, t) == turn[2] = t

\* History seeding: the prior turns without the user turns that equal the
\* task, then the task as a user turn.
IsDuplicateTask(turn, t) == turn[1] = "user" /\ turn[2] = t

SeedHistory(prior, t) ==
  Append(SelectSeq(prior, LAMBDA turn : ~IsDuplicateTask(turn, t)), <<"user", t>>)

\* Mutant of LoopContinues: an inclusive range, 0..=self.max_steps.
LoopContinues_Inclusive(s) == s <= max_steps

\* for step in 0..self.max_steps: whether the loop body runs once more.
LoopContinues(s) == s < max_steps

\* Mutant of LlmErrorResponse: the error text without the answer tag.
LlmErrorResponse_Bare(e) == <<"[LLM error: ">> \o e \o <<"]">>

\* unwrap_or_else(|e| format!("<answer>[LLM error: {e}]</answer>")).
LlmErrorResponse(e) ==
  <<"<answer", ">", "[LLM error: ">> \o e \o <<"]", "</answer", ">">>

\* unwrap_or_else(|e| format!("[error: {e}]")) on the result of dispatch.
ObservationOf(result) ==
  IF result.ok THEN result.val ELSE <<"[error: ">> \o result.err \o <<"]">>

\* The steps run acts on for a response (lines 289-296): the parsed steps, or
\* the recovered plain-text tool call when nothing was parsed.
StepsOf(response) ==
  IF parse_steps(response) # <<>> THEN parse_steps(response)
  ELSE IF try_recover_plain_tool(response).some
  THEN <<try_recover_plain_tool(response).val>>
  ELSE <<>>

\* Mutant of has_action: only a tool call counts as an action.
has_action_ToolsOnly(ss) == \E i \in 1..Len(ss) : ss[i].kind = "ToolCall"

has_action(ss) == \E i \in 1..Len(ss) : ss[i].kind \in {"ToolCall", "Answer"}

\* Mutant of PushAssistant: the response overwrites the last turn.
PushAssistant_Overwrite(h, response) ==
  [h EXCEPT ![Len(h)] = <<"assistant", response>>]

PushAssistant(h, response) == Append(h, <<"assistant", response>>)

\* Mutant of PushNudge: the corrective turn is pushed twice.
PushNudge_Twice(h) == Append(Append(h, <<"user", NudgeText>>), <<"user", NudgeText>>)

PushNudge(h) == Append(h, <<"user", NudgeText>>)

\* Mutant of PushObservation: the observation is inserted before the last turn.
PushObservation_BeforeLast(h, observation) ==
  SubSeq(h, 1, Len(h) - 1)
    \o << <<"user", <<"<observation>">> \o observation \o <<"</observation>">>>> >>
    \o SubSeq(h, Len(h), Len(h))

PushObservation(h, observation) ==
  Append(h, <<"user", <<"<observation>">> \o observation \o <<"</observation>">>>>)

\* What the think-only branch shows: the first think block, or the whole text.
StallNotice(response) ==
  LET inner == extract_tag(response, "think")
  IN  IF inner.some THEN ThoughtNotice(trim(inner.val))
      ELSE PlainThoughtNotice(trim(response))

\* The cursor after a step of the walk: past the first closing tag when the
\* remaining text has one.
Advance(rest, tag) ==
  IF find(rest, CloseTag[tag]) # 0 THEN AfterClose(rest, tag) ELSE rest

\* Mutant of AnswerSends: the Answer arm forgets the terminator.
AnswerSends_NoTerminator(ans) == <<SomeMsg(AnswerNotice(ans))>>

\* The values the Answer arm sends.
AnswerSends(ans) == <<SomeMsg(AnswerNotice(ans)), NoneMsg>>

\* Mutant of RawSends: the raw branch forgets the terminator.
RawSends_NoTerminator(response) == <<SomeMsg(RawNotice(response))>>

\* The values sent when no recoverable step was found.
RawSends(response) == <<SomeMsg(RawNotice(response)), NoneMsg>>

\* The values sent after the loop ran out of steps.
MaxStepsSends == <<SomeMsg(MaxStepsNotice), NoneMsg>>

DispatchRecord(name, input, observation) ==
  [name |-> name, input |-> input, observation |-> observation, call |-> nCalls]

\* ---- initial state: history seeded, at the top of the loop
Init ==
  /\ pc = "call"
  /\ exit = "none"
  /\ step = 0
  /\ prior_history \in PriorHistories
  /\ seed = SeedHistory(prior_history, task)
  /\ history = seed
  /\ chan = <<>>
  /\ llm_response = <<>>
  /\ steps = <<>>
  /\ remaining_resp = <<>>
  /\ nCalls = 0
  /\ responses = <<>>
  /\ acted = <<>>
  /\ dispatched = <<>>
  /\ failedCall = None
  /\ arg = <<>>
  /\ ret = None
  /\ fs = EmptyFs
  /\ StreamIdle
  /\ TuiIdle

\* ---- call_llm, returning Ok(text) or Err(e)
ReceiveResponse(text, failure) ==
  /\ chan' = Append(chan, SomeMsg(StepHeader(step + 1)))
  /\ llm_response' = text
  /\ nCalls' = nCalls + 1
  /\ responses' = Append(responses, text)
  /\ acted' = Append(acted, StepsOf(text))
  /\ failedCall' = failure
  /\ pc' = "parse"
  /\ UNCHANGED <<exit, step, history, steps, remaining_resp, dispatched, seed, callVars>>

CallLlmOk ==
  /\ pc = "call"
  /\ LoopContinues(step)
  /\ \E text \in Responses : ReceiveResponse(text, None)

CallLlmErr ==
  /\ pc = "call"
  /\ LoopContinues(step)
  /\ \E e \in LlmErrors : ReceiveResponse(LlmErrorResponse(e), Some(e))

\* ---- lines 289-304: nothing parsed and nothing recovered
RawPassthrough ==
  /\ pc = "parse"
  /\ parse_steps(llm_response) = <<>>
  /\ ~try_recover_plain_tool(llm_response).some
  /\ chan' = chan \o RawSends(llm_response)
  /\ history' = PushAssistant(history, llm_response)
  /\ pc' = "done"
  /\ exit' = "raw"
  /\ UNCHANGED <<step, llm_response, steps, remaining_resp, nCalls, responses, acted,
                 dispatched, failedCall, seed, callVars>>

\* ---- lines 291-296, 306-311, 331-332: a plain-text tool call recovered
RecoverPlainTool ==
  /\ pc = "parse"
  /\ parse_steps(llm_response) = <<>>
  /\ try_recover_plain_tool(llm_response).some
  /\ has_action(<<try_recover_plain_tool(llm_response).val>>)
  /\ chan' = Append(chan, SomeMsg(RecoveringNotice))
  /\ steps' = <<try_recover_plain_tool(llm_response).val>>
  /\ history' = PushAssistant(history, llm_response)
  /\ remaining_resp' = llm_response
  /\ pc' = "walk"
  /\ UNCHANGED <<exit, step, llm_response, nCalls, responses, acted, dispatched, failedCall, seed, callVars>>

\* ---- lines 306-329: a think-only response
Stalled ==
  /\ pc = "parse"
  /\ parse_steps(llm_response) # <<>>
  /\ ~has_action(parse_steps(llm_response))
  /\ chan' = Append(chan, SomeMsg(StallNotice(llm_response)))
  /\ history' = PushNudge(PushAssistant(history, llm_response))
  /\ step' = step + 1
  /\ pc' = "call"
  /\ UNCHANGED <<exit, llm_response, steps, remaining_resp, nCalls, responses, acted,
                 dispatched, failedCall, seed, callVars>>

\* ---- lines 306-332: the response has a tool call or an answer
BeginWalk ==
  /\ pc = "parse"
  /\ parse_steps(llm_response) # <<>>
  /\ has_action(parse_steps(llm_response))
  /\ history' = PushAssistant(history, llm_response)
  /\ steps' = parse_steps(llm_response)
  /\ remaining_resp' = llm_response
  /\ pc' = "walk"
  /\ UNCHANGED <<exit, step, chan, llm_response, nCalls, responses, acted, dispatched,
                 failedCall, seed, callVars>>

\* ---- lines 335-344
WalkThought ==
  /\ pc = "walk"
  /\ steps # <<>>
  /\ Head(steps).kind = "Thought"
  /\ LET inner == extract_tag(remaining_resp, "think")
     IN  IF inner.some
         THEN /\ chan' = Append(chan, SomeMsg(ThoughtNotice(trim(inner.val))))
              /\ remaining_resp' = Advance(remaining_resp, "think")
         ELSE UNCHANGED <<chan, remaining_resp>>
  /\ steps' = Tail(steps)
  /\ UNCHANGED <<pc, exit, step, history, llm_response, nCalls, responses, acted,
                 dispatched, failedCall, seed, callVars>>

\* ---- lines 345-356: the tool call is shown, dispatched and observed
WalkToolCall ==
  /\ pc = "walk"
  /\ steps # <<>>
  /\ Head(steps).kind = "ToolCall"
  /\ LET name  == Head(steps).name
         input == Head(steps).input
         shown == truncate(input, TOOL_INPUT_MAX)
     IN  /\ ~shown.panic
         /\ \E result \in dispatch(name, input) :
              LET observation == ObservationOf(result)
                  seen == truncate(observation, OBSERVATION_MAX)
              IN  /\ ~seen.panic
                  /\ chan' = chan \o <<SomeMsg(ToolNotice(name, shown)),
                                       SomeMsg(ObservationNotice(seen))>>
                  /\ history' = PushObservation(history, observation)
                  /\ dispatched' = Append(dispatched,
                                          DispatchRecord(name, input, observation))
  /\ remaining_resp' = Advance(remaining_resp, "tool")
  /\ steps' = Tail(steps)
  /\ UNCHANGED <<pc, exit, step, llm_response, nCalls, responses, acted, failedCall, seed, callVars>>

\* ---- line 346: truncate(&input, 120) slices inside a character
PanicOnToolInput ==
  /\ pc = "walk"
  /\ steps # <<>>
  /\ Head(steps).kind = "ToolCall"
  /\ truncate(Head(steps).input, TOOL_INPUT_MAX).panic
  /\ pc' = "done"
  /\ exit' = "panic"
  /\ UNCHANGED <<step, history, chan, llm_response, steps, remaining_resp, nCalls,
                 responses, acted, dispatched, failedCall, seed, callVars>>

\* ---- lines 346-350: the tool has run, truncate(&observation, 800) slices
\* inside a character
PanicOnObservation ==
  /\ pc = "walk"
  /\ steps # <<>>
  /\ Head(steps).kind = "ToolCall"
  /\ LET name  == Head(steps).name
         input == Head(steps).input
         shown == truncate(input, TOOL_INPUT_MAX)
     IN  /\ ~shown.panic
         /\ \E result \in dispatch(name, input) :
              /\ truncate(ObservationOf(result), OBSERVATION_MAX).panic
              /\ chan' = Append(chan, SomeMsg(ToolNotice(name, shown)))
              /\ dispatched' = Append(dispatched,
                                      DispatchRecord(name, input, ObservationOf(result)))
  /\ pc' = "done"
  /\ exit' = "panic"
  /\ UNCHANGED <<step, history, llm_response, steps, remaining_resp, nCalls,
                 responses, acted, failedCall, seed, callVars>>

\* Mutant of WalkAnswer: the Answer arm does not break, the walk goes on.
WalkAnswer_NoBreak ==
  /\ pc = "walk"
  /\ steps # <<>>
  /\ Head(steps).kind = "Answer"
  /\ chan' = chan \o AnswerSends(Head(steps).text)
  /\ steps' = Tail(steps)
  /\ UNCHANGED <<pc, exit, step, history, llm_response, remaining_resp, nCalls,
                 responses, acted, dispatched, failedCall, seed, callVars>>

\* ---- lines 357-362, 367-369
WalkAnswer ==
  /\ pc = "walk"
  /\ steps # <<>>
  /\ Head(steps).kind = "Answer"
  /\ chan' = chan \o AnswerSends(Head(steps).text)
  /\ pc' = "done"
  /\ exit' = "answer"
  /\ UNCHANGED <<step, history, llm_response, steps, remaining_resp, nCalls,
                 responses, acted, dispatched, failedCall, seed, callVars>>

\* ---- lines 365-370: every step walked, finished is false
WalkEnd ==
  /\ pc = "walk"
  /\ steps = <<>>
  /\ step' = step + 1
  /\ pc' = "call"
  /\ UNCHANGED <<exit, history, chan, llm_response, steps, remaining_resp, nCalls,
                 responses, acted, dispatched, failedCall, seed, callVars>>

\* ---- lines 372-374
MaxStepsReached ==
  /\ pc = "call"
  /\ ~LoopContinues(step)
  /\ chan' = chan \o MaxStepsSends
  /\ pc' = "done"
  /\ exit' = "max_steps"
  /\ UNCHANGED <<step, history, llm_response, steps, remaining_resp, nCalls,
                 responses, acted, dispatched, failedCall, seed, callVars>>

Next ==
  \/ CallLlmOk
  \/ CallLlmErr
  \/ RawPassthrough
  \/ RecoverPlainTool
  \/ Stalled
  \/ BeginWalk
  \/ WalkThought
  \/ WalkToolCall
  \/ PanicOnToolInput
  \/ PanicOnObservation
  \/ WalkAnswer
  \/ WalkEnd
  \/ MaxStepsReached

Spec == Init /\ [][Next]_vars

\* ------------------------------------------- history seeding on its own
\* The longest prior history the seeding is checked with.
MaxPrior == 3

\* The turns a prior history is made of: either role, with the text of the
\* task or another text.
PriorTurns == { <<role, content>> : role \in {"user", "assistant"},
                                    content \in {task, <<"a">>, <<"b">>} }

RECURSIVE SeqsUpTo(_, _)
\* Every sequence of at most n elements of S.
SeqsUpTo(S, n) ==
  IF n = 0 THEN {<<>>}
  ELSE LET shorter == SeqsUpTo(S, n - 1)
       IN  shorter \cup {Append(q, x) : q \in shorter, x \in S}

\* run is entered with any prior history; nothing is seeded yet.
SeedInit ==
  /\ pc = "seed"
  /\ prior_history \in SeqsUpTo(PriorTurns, MaxPrior)
  /\ exit = "none"
  /\ step = 0
  /\ seed = <<>>
  /\ history = <<>>
  /\ chan = <<>>
  /\ llm_response = <<>>
  /\ steps = <<>>
  /\ remaining_resp = <<>>
  /\ nCalls = 0
  /\ responses = <<>>
  /\ acted = <<>>
  /\ dispatched = <<>>
  /\ failedCall = None
  /\ arg = <<>>
  /\ ret = None
  /\ fs = EmptyFs
  /\ StreamIdle
  /\ TuiIdle

\* ---- lines 273-278: filter, collect, push the task
Seed ==
  /\ pc = "seed"
  /\ history' = SeedHistory(prior_history, task)
  /\ seed' = history'
  /\ pc' = "call"
  /\ UNCHANGED <<exit, step, chan, llm_response, steps, remaining_resp, nCalls,
                 responses, acted, dispatched, failedCall, callVars>>

SeedNext == Seed

SeedSpec == SeedInit /\ [][SeedNext]_vars

\* ------------------------------------------------ parse_steps on its own
\* The largest number of pieces a text handed to parse_steps is made of.
MaxSegments == 3

\* The pieces: whole blocks, opening tags alone, closing tags alone, plain text.
ParseSegments ==
  { ThinkBlock,
    AnswerBlock,
    ShellOpen \o <<"a", "\n">> \o ToolClose,
    <<"<tool", ">", "shell", "\n", " ", "a">> \o ToolClose,
    <<"<tool", ">", "\n">> \o ToolClose,
    <<"<answer", ">">>,
    <<"<think", ">">>,
    ReadOpen,
    <<"a">>,
    <<"</answer", ">">>,
    ToolClose,
    <<"</think", ">">> }

RECURSIVE Concats(_, _)
\* Every concatenation of at most n elements of S.
Concats(S, n) ==
  IF n = 0 THEN {<<>>}
  ELSE LET shorter == Concats(S, n - 1)
       IN  shorter \cup {q \o x : q \in shorter, x \in S}

\* The state of the variables run owns, while a function is checked on its own.
RunIdle ==
  /\ exit = "none"
  /\ step = 0
  /\ seed = <<>>
  /\ history = <<>>
  /\ chan = <<>>
  /\ llm_response = <<>>
  /\ steps = <<>>
  /\ remaining_resp = <<>>
  /\ nCalls = 0
  /\ responses = <<>>
  /\ acted = <<>>
  /\ dispatched = <<>>
  /\ failedCall = None
  /\ prior_history = <<>>

ParseInit ==
  /\ pc = "parse_steps"
  /\ arg \in Concats(ParseSegments, MaxSegments)
  /\ ret = None
  /\ fs = EmptyFs
  /\ StreamIdle
  /\ TuiIdle
  /\ RunIdle

\* ---- parse_steps(text) returns
ParseSteps ==
  /\ pc = "parse_steps"
  /\ ret' = Some(parse_steps(arg))
  /\ pc' = "returned"
  /\ UNCHANGED <<exit, step, history, chan, llm_response, steps, remaining_resp, nCalls,
                 responses, acted, dispatched, failedCall, seed, prior_history, arg, fs,
                 streamVars, tuiVars>>

ParseNext == ParseSteps

ParseSpec == ParseInit /\ [][ParseNext]_vars

\* -------------------------------------- try_recover_plain_tool on its own
\* The longest text, in tokens, handed to try_recover_plain_tool.
MaxRecoverLen == 4

RecoverTokens == {"shell", "read_file", "BACKTICK", " ", "\n", ":", "a"}

RecoverInit ==
  /\ pc = "try_recover_plain_tool"
  /\ arg \in SeqsUpTo(RecoverTokens, MaxRecoverLen)
  /\ ret = None
  /\ fs = EmptyFs
  /\ StreamIdle
  /\ TuiIdle
  /\ RunIdle

\* ---- try_recover_plain_tool(text) returns
TryRecoverPlainTool ==
  /\ pc = "try_recover_plain_tool"
  /\ ret' = Some(try_recover_plain_tool(arg))
  /\ pc' = "returned"
  /\ UNCHANGED <<exit, step, history, chan, llm_response, steps, remaining_resp, nCalls,
                 responses, acted, dispatched, failedCall, seed, prior_history, arg, fs,
                 streamVars, tuiVars>>

RecoverNext == TryRecoverPlainTool

RecoverSpec == RecoverInit /\ [][RecoverNext]_vars

\* ------------------------------------------------ the tools on their own
\* What write_file is asked to write.
FileContents == { <<"a", "b", "a">>, <<"b">>, <<"a", "\n">>, <<>>, <<"f", "\n", "b">> }

\* Paths as the model writes them: a bare name, the name between spaces, a
\* name in a directory, a blank path.
PathTexts == { <<"f">>, <<" ", "f", " ">>, <<"f", "/", "g">>, <<" ">> }

ReadInputs == PathTexts

\* "<path>\n<content>", and an input without the line break.
WriteInputs ==
  {path \o <<"\n">> \o content : path \in PathTexts, content \in FileContents}
    \cup { <<"f">> }

\* "<path>\n<<<\n<search>\n===\n<replacement>\n>>>" and inputs that lack the
\* opener, the separator or the closer, or have the closer on the last line
\* of the replacement.
EditInputs ==
  { <<"f", "\n", "<<<", "\n", "a", "\n", "===", "\n", "b", "\n", ">>>">>,
    <<"f", "\n", "<<<", "\n", "b", "\n", "===", "\n", "a", "\n", ">>>">>,
    <<"f", "/", "g", "\n", "<<<", "\n", "b", "\n", "===", "\n", "a", "\n", ">>>">>,
    <<"f", "\n", "<<<", "\n", "a", "a", "\n", "===", "\n", "b", "\n", ">>>">>,
    <<"f", "\n", "a", "\n", "===", "\n", "b", "\n", ">>>">>,
    <<"f", "\n", "<<<", "\n", "a", "\n", "b", "\n", ">>>">>,
    <<"f", "\n", "<<<", "\n", "a", "\n", "===", "\n", "b">>,
    <<"f", "\n", "<<<", "\n", "b", "\n", "===", "\n", "a", ">>>">> }

\* The tools that do not act on the modelled files, and two names that are
\* not built-in tools.
OtherTools == { <<"shell">>, <<"web_search">>, <<"git_status">>, <<"answer">>, <<"a">> }

ToolInit ==
  /\ pc = "dispatch"
  /\ fs \in { EmptyFs, [EmptyFs EXCEPT ![<<"f">>] = File(<<"a", "b", "a">>)] }
  /\ arg = <<>>
  /\ ret = None
  /\ StreamIdle
  /\ TuiIdle
  /\ RunIdle

\* ---- dispatch("read_file", input)
DispatchReadFile ==
  /\ pc = "dispatch"
  /\ \E input \in ReadInputs :
       /\ arg' = << <<"read_file">>, input >>
       /\ ret' = Some(read_file(fs, input))
  /\ UNCHANGED <<pc, exit, step, history, chan, llm_response, steps, remaining_resp, nCalls,
                 responses, acted, dispatched, failedCall, seed, prior_history, fs,
                 streamVars, tuiVars>>

\* ---- dispatch("write_file", input)
DispatchWriteFile ==
  /\ pc = "dispatch"
  /\ \E input \in WriteInputs :
       /\ arg' = << <<"write_file">>, input >>
       /\ ret' = Some(write_file(fs, input).result)
       /\ fs' = write_file(fs, input).fs
  /\ UNCHANGED <<pc, exit, step, history, chan, llm_response, steps, remaining_resp, nCalls,
                 responses, acted, dispatched, failedCall, seed, prior_history,
                 streamVars, tuiVars>>

\* ---- dispatch("edit_file", input)
DispatchEditFile ==
  /\ pc = "dispatch"
  /\ \E input \in EditInputs :
       /\ arg' = << <<"edit_file">>, input >>
       /\ ret' = Some(edit_file(fs, input).result)
       /\ fs' = edit_file(fs, input).fs
  /\ UNCHANGED <<pc, exit, step, history, chan, llm_response, steps, remaining_resp, nCalls,
                 responses, acted, dispatched, failedCall, seed, prior_history,
                 streamVars, tuiVars>>

\* ---- dispatch of any other name
DispatchOther ==
  /\ pc = "dispatch"
  /\ \E tool \in OtherTools :
       /\ arg' = <<tool, <<"b">>>>
       /\ \E result \in dispatch(tool, <<"b">>) : ret' = Some(result)
  /\ UNCHANGED <<pc, exit, step, history, chan, llm_response, steps, remaining_resp, nCalls,
                 responses, acted, dispatched, failedCall, seed, prior_history, fs,
                 streamVars, tuiVars>>

ToolNext ==
  \/ DispatchReadFile
  \/ DispatchWriteFile
  \/ DispatchEditFile
  \/ DispatchOther

ToolSpec == ToolInit /\ [][ToolNext]_vars

\* ------------------------------------------- stream_message on its own
\* The number of chunks the server sends at most.
MaxChunks == 2

\* The providers: OpenAI stands for the providers that share its endpoint
\* shape (OpenAI, XAI, Zen).
Providers == {"Anthropic", "OpenAI", "Ollama", "Custom"}

\* The requests: the token and the custom URL are blank or not.
Requests ==
  {r \in [provider : Providers, api_token : {<<" ">>, <<"a">>},
          custom_url : {<<" ">>, <<"a">>}] :
     r.provider # "Custom" => r.custom_url = <<"a">>}

\* The chunks a server may send: deltas of each dialect, alone and around a
\* line that is not JSON, terminators with lines after them, an empty delta.
Chunks ==
  { <<AnthropicDelta(<<"a">>)>>,
    <<AnthropicDelta(<<"a">>), BrokenDataLine, EventLine, AnthropicDelta(<<"b">>)>>,
    <<DoneLine, AnthropicDelta(<<"b">>)>>,
    <<OpenAiDelta(<<"a">>), BrokenDataLine, EmptyLine, OpenAiDelta(<<"b">>)>>,
    <<OpenAiDelta(<<>>), DoneLine, OpenAiDelta(<<"b">>)>>,
    <<OllamaMessage(<<"a">>, FALSE), EventLine, OllamaMessage(<<"b">>, FALSE)>>,
    <<OllamaMessage(<<"a">>, TRUE), OllamaMessage(<<"b">>, FALSE)>>,
    <<DoneLine>> }

\* A delta line cut in two between the chunks of the transport.
SplitLines == { <<AnthropicDelta(<<"a">>)>>, <<OpenAiDelta(<<"b">>)>> }

\* The bytes of the chunks: whole lines, and the two parts of a cut line.
ChunkBytes ==
  {BytesOf(lines) : lines \in Chunks}
    \cup {SubSeq(BytesOf(lines), 1, 2) : lines \in SplitLines}
    \cup {SubSeq(BytesOf(lines), 3, Len(BytesOf(lines))) : lines \in SplitLines}

Chunk(bytes, late) == [kind |-> "chunk", bytes |-> bytes, late |-> late]
EndOfStream == [kind |-> "eof"]
StreamError == [kind |-> "error"]

StreamInit ==
  /\ pc = "stream_message"
  /\ req \in Requests
  /\ cancel = FALSE
  /\ ready = <<>>
  /\ arrived = 0
  /\ closed = FALSE
  /\ seenTerminator = FALSE
  /\ consumed = <<>>
  /\ TuiIdle
  /\ arg = <<>>
  /\ ret = None
  /\ fs = EmptyFs
  /\ RunIdle

\* The parts of the state stream_message and its environment never touch.
StreamFrame ==
  UNCHANGED <<step, history, llm_response, steps, remaining_resp, nCalls, responses,
              acted, dispatched, failedCall, seed, prior_history, arg, fs, tuiVars>>

\* ---- the checks before the request: the token, the custom URL
PreFlight ==
  /\ pc = "stream_message"
  /\ IF trim(req.api_token) = <<>> /\ req.provider # "Ollama"
     THEN /\ pc' = "failed"
          /\ ret' = Some(Err(<<"API token is empty">>))
     ELSE IF req.provider = "Custom" /\ trim(req.custom_url) = <<>>
     THEN /\ pc' = "failed"
          /\ ret' = Some(Err(<<"Custom endpoint URL is empty">>))
     ELSE /\ pc' = "send"
          /\ ret' = ret
  /\ UNCHANGED <<exit, chan, streamVars, tuiVars>>
  /\ StreamFrame

\* ---- send().await returns the response
SendOk ==
  /\ pc = "send"
  /\ pc' = "select"
  /\ UNCHANGED <<exit, chan, ret, streamVars, tuiVars>>
  /\ StreamFrame

\* ---- send().await? fails
SendErr ==
  /\ pc = "send"
  /\ pc' = "failed"
  /\ ret' = Some(Err(<<"error sending request">>))
  /\ UNCHANGED <<exit, chan, streamVars, tuiVars>>
  /\ StreamFrame

\* ---- the user cancels (cancel_token.cancel())
Cancel ==
  /\ pc \in {"stream_message", "send", "select"}
  /\ ~cancel
  /\ cancel' = TRUE
  /\ UNCHANGED <<pc, exit, chan, ret, req, ready, arrived, closed, seenTerminator, consumed>>
  /\ StreamFrame

\* ---- a chunk of the response arrives
Arrive ==
  /\ pc = "select"
  /\ ~closed
  /\ arrived < MaxChunks
  /\ \E bytes \in ChunkBytes : ready' = Append(ready, Chunk(bytes, cancel))
  /\ arrived' = arrived + 1
  /\ UNCHANGED <<pc, exit, chan, ret, req, cancel, closed, seenTerminator, consumed>>
  /\ StreamFrame

\* ---- the response ends, or the connection fails
Close ==
  /\ pc = "select"
  /\ ~closed
  /\ closed' = TRUE
  /\ \E end \in {EndOfStream, StreamError} : ready' = Append(ready, end)
  /\ UNCHANGED <<pc, exit, chan, ret, req, cancel, arrived, seenTerminator, consumed>>
  /\ StreamFrame

\* ---- select!: the cancelled branch
SelectCancelled ==
  /\ pc = "select"
  /\ cancel
  /\ chan' = chan \o CancelSends
  /\ pc' = "done"
  /\ exit' = "cancelled"
  /\ ret' = Some(Ok(<<>>))
  /\ UNCHANGED <<streamVars, tuiVars>>
  /\ StreamFrame

\* The line is a terminator of the dialects the provider's branch reads.
IsTerminator(provider, line) ==
  \/ line.data_prefix /\ IsDone(line.payload)
  \/ provider # "Anthropic" /\ line.payload.json /\ IsDoneFlag(line.payload.v)

\* ---- select!: stream.next() gives Some(Ok(bytes))
SelectChunk ==
  /\ pc = "select"
  /\ ready # <<>>
  /\ Head(ready).kind = "chunk"
  /\ LET out == ChunkLines(req.provider, TextLines(Head(ready).bytes))
     IN  /\ chan' = chan \o out.sent
         /\ IF out.returned
            THEN pc' = "done" /\ exit' = "done_flag" /\ ret' = Some(Ok(<<>>))
            ELSE UNCHANGED <<pc, exit, ret>>
  /\ ready' = Tail(ready)
  /\ seenTerminator' =
       (seenTerminator
          \/ \E i \in 1..Len(TextLines(Head(ready).bytes)) :
               IsTerminator(req.provider, TextLines(Head(ready).bytes)[i]))
  /\ consumed' = consumed \o Head(ready).bytes
  /\ UNCHANGED <<req, cancel, arrived, closed>>
  /\ StreamFrame

\* ---- select!: stream.next() gives None, the loop breaks
SelectEnd ==
  /\ pc = "select"
  /\ ready # <<>>
  /\ Head(ready) = EndOfStream
  /\ chan' = Append(chan, None)
  /\ pc' = "done"
  /\ exit' = "eof"
  /\ ret' = Some(Ok(<<>>))
  /\ ready' = Tail(ready)
  /\ UNCHANGED <<req, cancel, arrived, closed, seenTerminator, consumed>>
  /\ StreamFrame

\* ---- select!: stream.next() gives Some(Err(e))
SelectErr ==
  /\ pc = "select"
  /\ ready # <<>>
  /\ Head(ready) = StreamError
  /\ pc' = "failed"
  /\ ret' = Some(Err(<<"error decoding response body">>))
  /\ ready' = Tail(ready)
  /\ UNCHANGED <<exit, chan, req, cancel, arrived, closed, seenTerminator, consumed>>
  /\ StreamFrame

\* ---- the caller's task on Err(e)
ErrorWrapper ==
  /\ pc = "failed"
  /\ chan' = chan \o ErrorSends(ret.val.err)
  /\ pc' = "done"
  /\ exit' = "error"
  /\ UNCHANGED <<ret, streamVars, tuiVars>>
  /\ StreamFrame

StreamNext ==
  \/ PreFlight
  \/ SendOk
  \/ SendErr
  \/ Cancel
  \/ Arrive
  \/ Close
  \/ SelectCancelled
  \/ SelectChunk
  \/ SelectEnd
  \/ SelectErr
  \/ ErrorWrapper

StreamSpec == StreamInit /\ [][StreamNext]_vars

\* ------------------------------------------------ the chat screen of the TUI
\* One event loop owns the App and the receiving end of one channel; every
\* task Enter spawns gets a clone of the sending end.  The select of the
\* event loop takes a key event or a value of the channel, whichever is there.
MaxTasks == 2     \* messages submitted, one producer task each
MaxTokens == 1    \* tokens one task sends before its terminator
MaxClock == 2     \* seconds the clock runs

\* The status texts (the source puts a pictograph before some of them and
\* writes the dash of the two mode texts as a long dash).
HintStatus == "Press ESC again to stop inference"
StoppedStatus == "Inference stopped"
ThinkingStatus == "Thinking"
AgentOnStatus == "Agent Mode ON (ReAct loop) - F2 to toggle"
AgentOffStatus == "Chat Mode - F2 to enable Agent Mode"

\* The text of message k and of the tokens of the task spawned for it: one
\* symbol that names k, so that a text tells whom it belongs to.
TextOf(k) == <<k>>

\* The task tokio::spawn starts: agent.run when agent_mode, else
\* stream_message with the clone of app.cancel_token taken at that time.
Task(agent_mode, token) ==
  [mode |-> IF agent_mode THEN "agent" ELSE "stream",
   cancel |-> token, sent |-> 0, ended |-> FALSE]

\* CancellationToken::new(): a token no one holds yet.
NewToken == app.cancel_token + 1

\* The parts of the state the chat screen never touches.
TuiFrame ==
  UNCHANGED <<pc, exit, step, history, chan, llm_response, steps, remaining_resp,
              nCalls, responses, acted, dispatched, failedCall, seed,
              prior_history, arg, ret, fs, streamVars>>

TuiInit ==
  /\ pc = "event_loop"
  /\ TuiIdle
  /\ StreamIdle
  /\ arg = <<>>
  /\ ret = None
  /\ fs = EmptyFs
  /\ RunIdle

\* ---- Enter on the provider list of the menu: the chat screen opens
NavigateToChat ==
  /\ pc = "event_loop"
  /\ app.screen = "Menu"
  /\ app' = [app EXCEPT !.screen = "Chat"]
  /\ UNCHANGED <<tasks, stream_rx, cancelled, clock, presses>>
  /\ TuiFrame

\* ---- KeyCode::Esc on the chat screen
EscKey ==
  /\ pc = "event_loop"
  /\ app.screen = "Chat"
  /\ IF app.streaming
     THEN IF app.last_esc_at.some /\ clock - app.last_esc_at.val <= 1
          THEN /\ cancelled' = cancelled \cup {app.cancel_token}
               /\ app' = [app EXCEPT !.cancel_token = NewToken,
                                     !.streaming = FALSE,
                                     !.status = StoppedStatus,
                                     !.last_esc_at = None]
          ELSE /\ app' = [app EXCEPT !.last_esc_at = Some(clock),
                                     !.status = HintStatus]
               /\ cancelled' = cancelled
     ELSE /\ app' = [app EXCEPT !.screen = "Menu"]
          /\ cancelled' = cancelled
  /\ presses' = IF app.streaming THEN presses + 1 ELSE presses
  /\ UNCHANGED <<tasks, stream_rx, clock>>
  /\ TuiFrame

\* ---- KeyCode::F(2): toggle_agent_mode
F2Key ==
  /\ pc = "event_loop"
  /\ app.screen = "Chat"
  /\ app' = [app EXCEPT !.agent_mode = ~app.agent_mode,
                        !.status = IF ~app.agent_mode THEN AgentOnStatus
                                   ELSE AgentOffStatus]
  /\ UNCHANGED <<tasks, stream_rx, cancelled, clock, presses>>
  /\ TuiFrame

\* ---- KeyCode::Enter in the Message field with a non-blank message: it
\* returns at once while app.streaming; else add_user_message and the spawn.
EnterKey ==
  /\ pc = "event_loop"
  /\ app.screen = "Chat"
  /\ ~app.streaming
  /\ Len(tasks) < MaxTasks
  /\ app' = [app EXCEPT !.messages = Append(@, <<"user", TextOf(Len(tasks) + 1)>>),
                        !.status = ThinkingStatus,
                        !.streaming = TRUE]
  /\ tasks' = Append(tasks, Task(app.agent_mode, app.cancel_token))
  /\ presses' = 0
  /\ UNCHANGED <<stream_rx, cancelled, clock>>
  /\ TuiFrame

\* ---- time passes
Tick ==
  /\ pc = "event_loop"
  /\ clock < MaxClock
  /\ clock' = clock + 1
  /\ UNCHANGED <<app, tasks, stream_rx, cancelled, presses>>
  /\ TuiFrame

\* ---- task i sends a token: tx.send(Some(..)) of stream_message, of run, or
\* of the error wrapper.  A stream whose token is cancelled may still send
\* (the select takes either ready branch); run has no cancellation at all.
TaskSendsToken(i) ==
  /\ pc = "event_loop"
  /\ ~tasks[i].ended
  /\ tasks[i].sent < MaxTokens
  /\ stream_rx' = Append(stream_rx, [from |-> i, val |-> Some(TextOf(i))])
  /\ tasks' = [tasks EXCEPT ![i].sent = @ + 1]
  /\ UNCHANGED <<app, cancelled, clock, presses>>
  /\ TuiFrame

\* ---- task i sends its terminator: the stream has ended, its cancellation
\* was observed, run has returned, or the error wrapper has sent its text.
TaskEnds(i) ==
  /\ pc = "event_loop"
  /\ ~tasks[i].ended
  /\ stream_rx' = Append(stream_rx, [from |-> i, val |-> None])
  /\ tasks' = [tasks EXCEPT ![i].ended = TRUE]
  /\ UNCHANGED <<app, cancelled, clock, presses>>
  /\ TuiFrame

\* content.push_str(&token) on the last message when it is the assistant's,
\* else a new assistant message.
AppendToken(messages, token) ==
  IF messages # <<>> /\ messages[Len(messages)][1] = "assistant"
  THEN [messages EXCEPT ![Len(messages)][2] = @ \o token]
  ELSE Append(messages, <<"assistant", token>>)

\* ---- Some(chunk) = stream_rx.recv() of the event loop
Receive ==
  /\ pc = "event_loop"
  /\ stream_rx # <<>>
  /\ LET chunk == Head(stream_rx).val IN
       IF chunk.some
       THEN app' = [app EXCEPT !.messages = AppendToken(@, chunk.val),
                               !.status = ""]
       ELSE app' = [app EXCEPT !.streaming = FALSE, !.status = ""]
  /\ stream_rx' = Tail(stream_rx)
  /\ UNCHANGED <<tasks, cancelled, clock, presses>>
  /\ TuiFrame

TuiNext ==
  \/ NavigateToChat
  \/ EscKey
  \/ F2Key
  \/ EnterKey
  \/ Tick
  \/ \E i \in 1..Len(tasks) : TaskSendsToken(i)
  \/ \E i \in 1..Len(tasks) : TaskEnds(i)
  \/ Receive

TuiSpec == TuiInit /\ [][TuiNext]_vars

\* =================================================================== claims
NoneCount == Cardinality({i \in 1..Len(chan) : chan[i] = NoneMsg})

NoticeCount(kind) ==
  Cardinality({i \in 1..Len(chan) : chan[i].some /\ chan[i].notice.kind = kind})

\* run has returned Ok(()) through one of its three exits.
TerminalExit == pc = "done" /\ exit \in {"answer", "raw", "max_steps"}

\* The last n values sent on the channel.
ChanTail(n) == SubSeq(chan, Len(chan) - n + 1, Len(chan))

\* The dispatch calls made while walking the response of call c, in order.
DispatchesOfCall(c) == SelectSeq(dispatched, LAMBDA d : d.call = c)

\* C1: whatever the model returns and whatever the tools report, run makes at
\* most max_steps model calls and stops only by leaving through one of its
\* terminal exits (Answer, raw passthrough, max-steps notice).
C1_ReachesTerminalExit ==
  /\ nCalls <= max_steps
  /\ pc = "done" => exit \in {"answer", "raw", "max_steps"}

\* C2: the terminator None is never sent twice, is not sent while the run is
\* still going, and has been sent exactly once, as the last value, on each of
\* the three exits of run (Answer, raw passthrough, step budget exhausted).
C2_TerminatorExactlyOnce ==
  /\ NoneCount <= 1
  /\ pc # "done" => NoneCount = 0
  /\ TerminalExit => NoneCount = 1 /\ chan[Len(chan)] = NoneMsg

\* C2 witness: the run has left through the Answer exit in its last permitted
\* iteration, after tools were dispatched, with one terminator sent.
C2_Witness ==
  /\ pc = "done" /\ exit = "answer"
  /\ nCalls = max_steps
  /\ dispatched # <<>>
  /\ NoneCount = 1

\* C3: once a tool call named answer has been dispatched (the sentinel
\* returned), the run has rendered its input as the Answer, sent the
\* terminator and ended in that iteration: no later dispatch, no later model
\* call.
C3_AnswerToolEndsRun ==
  \A i \in 1..Len(dispatched) :
    dispatched[i].name = <<"answer">> =>
      /\ i = Len(dispatched)
      /\ nCalls = dispatched[i].call
      /\ pc = "done" /\ exit = "answer"
      /\ Len(chan) >= 2
      /\ ChanTail(2) = <<SomeMsg(AnswerNotice(dispatched[i].input)), NoneMsg>>

\* C4: nothing inside the loop aborts the run: run never panics, and when it
\* has ended the terminator is the last value sent.
C4_RunNeverAborts ==
  /\ exit # "panic"
  /\ pc = "done" => Len(chan) >= 1 /\ chan[Len(chan)] = NoneMsg

\* ---- history of the run, iteration by iteration
\* The turns pushed since seeding.
RunTurns == SubSeq(history, Len(seed) + 1, Len(history))

IsObservationTurn(turn) ==
  turn[1] = "user" /\ turn[2] # <<>> /\ turn[2][1] = "<observation>"

ObservationTurn(observation) ==
  <<"user", <<"<observation>">> \o observation \o <<"</observation>">>>>

\* The positions in turns of the assistant turns, in increasing order.
AssistantPositions(turns) ==
  LET P == {i \in 1..Len(turns) : turns[i][1] = "assistant"}
      RECURSIVE Sorted(_)
      Sorted(S) == IF S = {} THEN <<>> ELSE <<SetMin(S)>> \o Sorted(S \ {SetMin(S)})
  IN  Sorted(P)

\* The observation turns that follow the c-th assistant turn (at ps[c]) and
\* precede the next assistant turn.
ObservationsAfter(turns, ps, c) ==
  LET from == ps[c] + 1
      to   == IF c < Len(ps) THEN ps[c + 1] - 1 ELSE Len(turns)
  IN  SelectSeq(SubSeq(turns, from, to), IsObservationTurn)

\* The tool calls run derived from the response of call c, in their order.
ToolCallsOf(c) == SelectSeq(acted[c], LAMBDA st : st.kind = "ToolCall")

\* C5: the c-th assistant turn of the run holds the c-th raw response, and the
\* observation turns that follow it are, in order, the observations of the
\* tool calls of that response in the order the response lists them: the j-th
\* is a user turn wrapping the result of dispatching the j-th tool call.
C5_ObservationsInCallOrder ==
  LET turns == RunTurns
      ps    == AssistantPositions(turns)
  IN  /\ Len(ps) <= Len(responses)
      /\ \A c \in 1..Len(ps) :
           LET obs   == ObservationsAfter(turns, ps, c)
               calls == ToolCallsOf(c)
               made  == DispatchesOfCall(c)
           IN  /\ turns[ps[c]] = <<"assistant", responses[c]>>
               /\ Len(obs) <= Len(calls)
               /\ Len(obs) <= Len(made)
               /\ \A j \in 1..Len(obs) :
                    /\ made[j].name = calls[j].name
                    /\ made[j].input = calls[j].input
                    /\ obs[j] = ObservationTurn(made[j].observation)
      /\ \A i \in 1..Len(turns) :
           IsObservationTurn(turns[i]) => \E p \in 1..(i - 1) : turns[p][1] = "assistant"

\* C5 witness: one response listed two different tool calls and both their
\* (different) observations are in the history, in the order of the calls.
C5_Witness ==
  LET turns == RunTurns
      ps    == AssistantPositions(turns)
  IN  \E c \in 1..Len(ps) :
        LET obs == ObservationsAfter(turns, ps, c)
        IN  /\ Len(obs) = 2
            /\ obs[1] # obs[2]
            /\ ToolCallsOf(c)[1] # ToolCallsOf(c)[2]

IsPrefix(a, b) == Len(a) <= Len(b) /\ SubSeq(b, 1, Len(a)) = a

\* C6: every step of run leaves the history it found as a prefix of the new
\* history: turns are only appended.
C6_HistoryAppendOnly == [][IsPrefix(history, history')]_vars

\* C6 witness: the history has grown by an assistant turn, an observation and
\* the corrective turn of a think-only response, on top of a seeded history
\* that holds prior turns.
C6_Witness ==
  /\ Len(seed) > 1
  /\ \E i \in 1..Len(RunTurns) : IsObservationTurn(RunTurns[i])
  /\ \E i \in 1..Len(RunTurns) : RunTurns[i] = <<"user", NudgeText>>

\* The tool calls among a sequence of steps that precede its first Answer.
ToolCallsBeforeAnswer(ss) ==
  LET A == {i \in 1..Len(ss) : ss[i].kind = "Answer"}
      upto == IF A = {} THEN Len(ss) ELSE SetMin(A) - 1
  IN  SelectSeq(SubSeq(ss, 1, upto), LAMBDA st : st.kind = "ToolCall")

AnswerRendered == NoticeCount("Answer") > 0

\* C7: once an Answer has been rendered the run is over (no further step is
\* walked, no tool dispatched, no model call made), and the tools dispatched
\* for the response that held the Answer are exactly its tool calls that
\* precede the Answer, in order.
C7_AnswerEndsResponse ==
  /\ AnswerRendered =>
       /\ pc = "done" /\ exit = "answer"
       /\ nCalls = Len(responses)
       /\ ChanTail(2) = AnswerSends(acted[nCalls][Len(acted[nCalls])].text)
  /\ exit = "answer" =>
       /\ Len(DispatchesOfCall(nCalls)) = Len(ToolCallsBeforeAnswer(acted[nCalls]))
       /\ \A j \in 1..Len(DispatchesOfCall(nCalls)) :
            /\ DispatchesOfCall(nCalls)[j].name =
                 ToolCallsBeforeAnswer(acted[nCalls])[j].name
            /\ DispatchesOfCall(nCalls)[j].input =
                 ToolCallsBeforeAnswer(acted[nCalls])[j].input

\* C7 witness: the Answer of a response that lists a tool call before it and
\* another tool tag after it has been rendered; one tool was dispatched.
C7_Witness ==
  /\ exit = "answer"
  /\ find(llm_response, <<"</answer", ">", "<tool">>) # 0
  /\ Len(DispatchesOfCall(nCalls)) = 1

\* C8: when call_llm has failed with error e, the run goes straight to the
\* Answer exit of that iteration: the only step to walk is Answer("[LLM error:
\* e]"), no tool is dispatched for it, and the run ends with that Answer
\* notice followed by the terminator, having made no further model call.
C8_ProviderFailureAnswers ==
  failedCall.some =>
    LET text == <<"[LLM error: ">> \o failedCall.val \o <<"]">>
    IN  /\ pc \in {"parse", "walk", "done"}
        /\ pc = "parse" => acted[nCalls] = <<Answer(text)>>
        /\ pc = "walk" => steps = <<Answer(text)>>
        /\ pc = "done" => exit = "answer" /\ ChanTail(2) = <<SomeMsg(AnswerNotice(text)), NoneMsg>>
        /\ DispatchesOfCall(nCalls) = <<>>
        /\ Len(responses) = nCalls

\* C8 witness: the second model call failed and the run has ended.
C8_Witness ==
  /\ failedCall.some
  /\ nCalls = 2
  /\ pc = "done"

\* The steps of a think-only response: there are steps, none is a tool call or
\* an answer.
ThinkOnly(ss) == ss # <<>> /\ \A i \in 1..Len(ss) : ss[i].kind = "Thought"

\* C9: as long as every response so far was think-only, no tool has been
\* dispatched and the run has not ended early; when it ends it has made
\* exactly max_steps model calls and its last two values are the "Max steps
\* reached" notice and the terminator.
C9_ThinkOnlyExhaustsBudget ==
  (\A i \in 1..Len(responses) : ThinkOnly(acted[i])) =>
    /\ dispatched = <<>>
    /\ pc = "done" =>
         /\ exit = "max_steps"
         /\ nCalls = max_steps
         /\ ChanTail(2) = <<SomeMsg(MaxStepsNotice), NoneMsg>>
         /\ NoneCount = 1

\* C9 witness: the run ended after max_steps think-only responses.
C9_Witness ==
  /\ pc = "done"
  /\ Len(responses) = max_steps
  /\ Len(responses) > 0
  /\ \A i \in 1..Len(responses) : ThinkOnly(acted[i])

TagTokens == {"<think", "</think", "<tool", "</tool", "<answer", "</answer"}

TagFree(t) == \A i \in 1..Len(t) : t[i] \notin TagTokens

RECURSIVE AfterThinkBlocks(_)
\* The text that follows the leading whitespace and well-formed think blocks
\* (<think>T</think>, T free of tags) of a response.
AfterThinkBlocks(t) ==
  LET u == trim_start(t)
      close == find(u, <<"</think", ">">>)
  IN  IF starts_with(u, <<"<think", ">">>) /\ close # 0 /\ TagFree(SubSeq(u, 3, close - 1))
      THEN AfterThinkBlocks(From(u, close + 2))
      ELSE u

\* A response that is a well-formed answer with no tool tag: after optional
\* well-formed think blocks comes <answer>X</answer> with X free of tags, and
\* no <tool tag anywhere in the response.
WellFormedAnswer(response) ==
  LET t == AfterThinkBlocks(response)
      close == find(t, <<"</answer", ">">>)
  IN  /\ find(response, <<"<tool">>) = 0
      /\ starts_with(t, <<"<answer", ">">>)
      /\ close # 0
      /\ TagFree(SubSeq(t, 3, close - 1))

\* C10: when the first response is a well-formed answer, the run makes that
\* one model call only, dispatches no tool, and ends having sent exactly one
\* Answer notice and exactly one terminator.
C10_ImmediateAnswer ==
  (Len(responses) >= 1 /\ WellFormedAnswer(responses[1])) =>
    /\ nCalls = 1
    /\ dispatched = <<>>
    /\ pc \in {"parse", "walk", "done"}
    /\ NoticeCount("Answer") <= 1
    /\ pc = "done" => exit = "answer" /\ NoticeCount("Answer") = 1 /\ NoneCount = 1

\* C10 witness: the run ended on a first response, returned by the model, that
\* holds a think block and then a well-formed answer.
C10_Witness ==
  /\ pc = "done"
  /\ ~failedCall.some
  /\ Len(responses) >= 1 /\ find(responses[1], <<"<think">>) = 1
  /\ Len(responses) >= 1 /\ WellFormedAnswer(responses[1])

\* C11: the step that handles a stalled response (its parsed steps are all
\* Thought) dispatches no tool, appends to the history exactly the raw response
\* as an assistant turn followed by one corrective user turn, makes no model
\* call itself, and hands control back to the top of the loop with one more
\* unit of the step budget used.
C11_StalledIteration ==
  [][(pc = "parse" /\ ThinkOnly(acted[nCalls])) =>
       /\ dispatched' = dispatched
       /\ history' = history \o << <<"assistant", llm_response>>, <<"user", NudgeText>> >>
       /\ nCalls' = nCalls
       /\ step' = step + 1
       /\ pc' = "call"]_vars

\* C11 witness: the second iteration stalled; its response and the corrective
\* turn are the last two turns, two units of the budget are used, and no
\* tool was dispatched for it.
C11_Witness ==
  /\ pc = "call"
  /\ nCalls = 2 /\ step = 2
  /\ ThinkOnly(acted[2])
  /\ DispatchesOfCall(2) = <<>>
  /\ Len(history) >= 2
  /\ SubSeq(history, Len(history) - 1, Len(history)) =
       << <<"assistant", responses[2]>>, <<"user", NudgeText>> >>

\* C12: when nothing was parsed from a response and nothing recovered, the
\* iteration only ever goes on to the raw exit: no step is walked, no tool is
\* dispatched for the response, and the run ends in that iteration having
\* sent the raw response unchanged and then the terminator.
C12_RawPassthrough ==
  (nCalls >= 1 /\ acted[nCalls] = <<>>) =>
    /\ pc \in {"parse", "done"}
    /\ DispatchesOfCall(nCalls) = <<>>
    /\ Len(responses) = nCalls
    /\ pc = "done" =>
         /\ exit = "raw"
         /\ Len(chan) >= 2
         /\ ChanTail(2) = <<SomeMsg(RawNotice(responses[nCalls])), NoneMsg>>
         /\ NoneCount = 1

\* C12 witness: the run ended on the raw exit in its second iteration with a
\* response that opens an answer tag and never closes it.
C12_Witness ==
  /\ pc = "done" /\ exit = "raw"
  /\ nCalls = 2
  /\ acted[2] = <<>>
  /\ find(responses[2], <<"<answer">>) # 0

\* ---- history seeding
\* The positions of the prior turns that are not a user turn equal to the task.
KeptPositions(prior) ==
  {i \in 1..Len(prior) : ~(prior[i][1] = "user" /\ prior[i][2] = task)}

CountTurns(h, turn) == Cardinality({i \in 1..Len(h) : h[i] = turn})

\* C13: the seeded history ends with the task as a user turn; no other turn of
\* it is a user turn equal to the task; it holds as many assistant turns equal
\* to the task as the prior history; and the prior turns other than the user
\* turns equal to the task are all there, in their original order, before
\* the final task turn.
C13_SeedingDedup ==
  pc = "call" =>
    LET kept == KeptPositions(prior_history)
    IN  /\ Len(history) = Cardinality(kept) + 1
        /\ history[Len(history)] = <<"user", task>>
        /\ \A i \in 1..(Len(history) - 1) : history[i] # <<"user", task>>
        /\ CountTurns(history, <<"assistant", task>>) =
             CountTurns(prior_history, <<"assistant", task>>)
        /\ \A i \in kept :
             history[Cardinality({j \in kept : j <= i})] = prior_history[i]

\* C13 witness: seeding has run on a prior history that holds the task both as
\* a user turn and as an assistant turn, and another turn after them.
C13_Witness ==
  /\ pc = "call"
  /\ Len(prior_history) = 3
  /\ prior_history[1] = <<"user", task>>
  /\ prior_history[2] = <<"assistant", task>>
  /\ prior_history[3] = <<"user", <<"a">>>>
  /\ history = << <<"assistant", task>>, <<"user", <<"a">>>>, <<"user", task>> >>

\* C14: seeding removes at most the one trailing user turn that equals the
\* task: the seeded history is the prior history, without its last turn when
\* that is a user turn equal to the task, followed by the task turn; an
\* earlier user turn with the text of the task stays.
C14_OnlyTrailingDuplicateRemoved ==
  pc = "call" =>
    LET n == Len(prior_history)
        trailing == n > 0 /\ prior_history[n] = <<"user", task>>
        expected == IF trailing THEN SubSeq(prior_history, 1, n - 1) ELSE prior_history
    IN  history = Append(expected, <<"user", task>>)

\* ---- the parser, block by block
OpenTokens == {"<think", "<tool", "<answer"}

TagOf(tok) ==
  CASE tok = "<think" -> "think"
    [] tok = "<tool" -> "tool"
    [] tok = "<answer" -> "answer"

\* The first position of t that holds a token of S, 0 when there is none.
FirstIndex(t, S) ==
  LET P == {i \in 1..Len(t) : t[i] \in S}
  IN  IF P = {} THEN 0 ELSE SetMin(P)

\* The text has the closing tag of tag somewhere.
HasClose(u, tag) ==
  \E i \in 1..(Len(u) - 1) : u[i] = CloseTag[tag][1] /\ u[i + 1] = ">"

\* The attributes of an opening tag as the prompt writes them: none, or (on a
\* tool tag) the one attribute name="N".
PlainAttrs(tag, attrs) ==
  \/ attrs = <<>>
  \/ /\ tag = "tool"
     /\ Len(attrs) = 5
     /\ attrs[1] = " " /\ attrs[2] = "name=" /\ attrs[3] = "\""
     /\ attrs[4] \notin {"\"", ">"} /\ attrs[5] = "\""

\* The block that opens at the head of u (u[1] is an opening prefix): its
\* tag, attributes, body and the text after its closing tag.  It is well
\* formed when the opening tag is closed by ">", the closing tag follows, and
\* neither attributes nor body hold a tag.
BlockAt(u) ==
  LET tag == TagOf(u[1])
      gt  == FirstIndex(u, {">"})
      closes == {i \in 1..(Len(u) - 1) : u[i] = CloseTag[tag][1] /\ u[i + 1] = ">"}
      close == IF closes = {} THEN 0 ELSE SetMin(closes)
      attrs == SubSeq(u, 2, gt - 1)
      body  == SubSeq(u, gt + 1, close - 1)
  IN  [tag |-> tag, attrs |-> attrs, body |-> body, after |-> From(u, close + 2),
       wellFormed |-> /\ gt # 0
                      /\ close > gt
                      /\ TagFree(attrs) /\ TagFree(body)
                      /\ PlainAttrs(tag, attrs)]

IsNamedTool(b) == b.tag = "tool" /\ b.attrs # <<>>

IsUnnamedTool(b) == b.tag = "tool" /\ b.attrs = <<>>

\* First line and remainder of the trimmed body of a <tool> block without a
\* name attribute.
UnnamedName(body) ==
  LET t  == trim(body)
      nl == FirstIndex(t, {"\n"})
  IN  trim(IF nl = 0 THEN t ELSE SubSeq(t, 1, nl - 1))

UnnamedInput(body) ==
  LET t  == trim(body)
      nl == FirstIndex(t, {"\n"})
  IN  IF nl = 0 THEN <<>> ELSE trim(SubSeq(t, nl + 1, Len(t)))

\* The step a well-formed block stands for.
ExpectedStep(b) ==
  CASE b.tag = "think" -> Thought
    [] b.tag = "answer" -> Answer(trim(b.body))
    [] IsNamedTool(b) -> ToolCall(<<b.attrs[4]>>, trim(b.body))
    [] IsUnnamedTool(b) -> ToolCall(UnnamedName(b.body), UnnamedInput(b.body))

ExpectedSteps(blocks) == [i \in 1..Len(blocks) |-> ExpectedStep(blocks[i])]

RECURSIVE LeadingBlocks(_)
\* The well-formed think and tool blocks (a tool without name attribute needs
\* a non-blank body) a text starts with, separated by text without tags, and
\* the rest: the text from the first tag that is not such a block.
LeadingBlocks(t) ==
  LET p == FirstIndex(t, TagTokens)
      u == SubSeq(t, p, Len(t))
  IN  IF p = 0 THEN [blocks |-> <<>>, rest |-> <<>>]
      ELSE IF u[1] \notin {"<think", "<tool"} THEN [blocks |-> <<>>, rest |-> u]
      ELSE LET b == BlockAt(u)
           IN  IF b.wellFormed /\ ~(IsUnnamedTool(b) /\ trim(b.body) = <<>>)
               THEN LET r == LeadingBlocks(b.after)
                    IN  [blocks |-> <<b>> \o r.blocks, rest |-> r.rest]
               ELSE [blocks |-> <<>>, rest |-> u]

\* The rest opens with a well-formed <answer>X</answer>.
AnswerNext(rest) ==
  /\ rest # <<>>
  /\ rest[1] = "<answer"
  /\ BlockAt(rest).wellFormed

\* The positions of the text where a well-formed <answer>X</answer> opens.
AnswerPositions(t) ==
  {p \in 1..Len(t) : t[p] = "<answer" /\ BlockAt(SubSeq(t, p, Len(t))).wellFormed}

C17_UnclosedMarkerStops ==
  pc = "returned" =>
    LET s == LeadingBlocks(arg)
        m == FirstIndex(s.rest, OpenTokens)
    IN  (m # 0 /\ ~HasClose(s.rest, TagOf(s.rest[m]))) =>
          ret.val = ExpectedSteps(s.blocks)

\* C17 witness: a think block followed by an answer tag that is never closed
\* has been parsed into the one Thought.
C17_Witness ==
  /\ pc = "returned"
  /\ arg = ThinkBlock \o <<"<answer", ">", "a">>
  /\ ret.val = <<Thought>>

\* C18: a <tool> block without name attribute that parsing gets to yields a
\* ToolCall named by the first line of its trimmed body, with the trimmed
\* remainder as input; when the body is blank (the derived name is empty)
\* the result ends with the steps before that block.
C18_UnnamedTool ==
  pc = "returned" =>
    LET s == LeadingBlocks(arg)
    IN  /\ \A i \in 1..Len(s.blocks) :
             IsUnnamedTool(s.blocks[i]) =>
               /\ Len(ret.val) >= i
               /\ ret.val[i] = ToolCall(UnnamedName(s.blocks[i].body),
                                        UnnamedInput(s.blocks[i].body))
        /\ (/\ s.rest # <<>>
            /\ s.rest[1] = "<tool"
            /\ BlockAt(s.rest).wellFormed
            /\ IsUnnamedTool(BlockAt(s.rest))
            /\ UnnamedName(BlockAt(s.rest).body) = <<>>) =>
             ret.val = ExpectedSteps(s.blocks)

\* C18 witness: a tool block named by its first line, then a tool block with a
\* blank body, then an answer: the result is the first tool call alone.
C18_Witness ==
  /\ pc = "returned"
  /\ arg = <<"<tool", ">", "shell", "\n", " ", "a">> \o ToolClose
             \o <<"<tool", ">", "\n">> \o ToolClose \o AnswerBlock
  /\ ret.val = <<ToolCall(<<"shell">>, <<"a">>)>>

\* C19: for the empty text and for every text that holds none of the opening
\* prefixes <think, <tool, <answer, parse_steps returns the empty sequence.
C19_NoMarkerNoSteps ==
  (pc = "returned" /\ FirstIndex(arg, OpenTokens) = 0) => ret.val = <<>>

\* C19 witness: a text of plain words and closing tags, without an opening
\* prefix, has been parsed.
C19_Witness ==
  /\ pc = "returned"
  /\ arg = <<"a">> \o ToolClose \o <<"</answer", ">">>
  /\ ret.val = <<>>

\* ---- plain-text recovery, line by line
NonBlank(t) == {i \in 1..Len(t) : ~IsWhitespace(t[i])}

\* The position of the line break that ends the first non-blank line, 0 when
\* that line is the last one.
FirstLineBreak(t) ==
  LET nls == {j \in 1..Len(t) : t[j] = "\n" /\ j > SetMin(NonBlank(t))}
  IN  IF nls = {} THEN 0 ELSE SetMin(nls)

\* The first non-blank line of a text that has one, and the text after it.
FirstLineOf(t) ==
  SubSeq(t, SetMin(NonBlank(t)),
         IF FirstLineBreak(t) = 0 THEN Len(t) ELSE FirstLineBreak(t) - 1)

AfterFirstLine(t) ==
  IF FirstLineBreak(t) = 0 THEN <<>> ELSE SubSeq(t, FirstLineBreak(t) + 1, Len(t))

\* A line without the whitespace around it, the backticks around that, and
\* the whitespace inside the backticks.
Unwrapped(line) ==
  LET t == trim(line)
      keep == {i \in 1..Len(t) : t[i] # "BACKTICK"}
  IN  IF keep = {} THEN <<>> ELSE trim(SubSeq(t, SetMin(keep), SetMax(keep)))

\* Position i is the first non-blank position of its line.
StartsLine(t, i) ==
  \A j \in 1..(i - 1) : t[j] = " " \/ \E k \in j..(i - 1) : t[k] = "\n"

\* Some line of the text starts with "name:" or "name :" for a known tool.
HasToolPrefixLine(t) ==
  \E i \in 1..Len(t) :
    /\ IsKnownTool(<<t[i]>>)
    /\ StartsLine(t, i)
    /\ \/ i + 1 <= Len(t) /\ t[i + 1] = ":"
       \/ i + 2 <= Len(t) /\ t[i + 1] = " " /\ t[i + 2] = ":"

FirstLineIsTool(t) ==
  NonBlank(t) # {} /\ IsKnownTool(Unwrapped(FirstLineOf(t)))

\* C20: when the first non-blank line of the text, without the backticks and
\* whitespace around it, is a known tool name, try_recover_plain_tool returns
\* the ToolCall of that name whose input is the rest of the text after that
\* line (its lines joined by newlines), trimmed; when the first line is no
\* known tool name and no line starts with "name:" or "name :" for a known
\* tool, it returns nothing.
C20_RecoverFirstLineTool ==
  pc = "returned" =>
    /\ FirstLineIsTool(arg) =>
         ret.val = Some(ToolCall(Unwrapped(FirstLineOf(arg)), trim(AfterFirstLine(arg))))
    /\ (~FirstLineIsTool(arg) /\ ~HasToolPrefixLine(arg)) => ret.val = None

\* C20 witness: a text whose first line is a tool name followed by a backtick
\* and whose second line is the input has been recovered.
C20_Witness ==
  /\ pc = "returned"
  /\ arg = <<"shell", "BACKTICK", "\n", "a">>
  /\ ret.val = Some(ToolCall(<<"shell">>, <<"a">>))

\* The positions where some line starts with "name:" or "name :" for a known
\* tool name.
ToolPrefixPositions(t) ==
  {i \in 1..Len(t) :
     /\ IsKnownTool(<<t[i]>>)
     /\ StartsLine(t, i)
     /\ \/ i + 1 <= Len(t) /\ t[i + 1] = ":"
        \/ i + 2 <= Len(t) /\ t[i + 1] = " " /\ t[i + 2] = ":"}

\* The rest of the line after the prefix "name:" or "name :" that starts at i.
AfterToolPrefix(t, i) ==
  LET from == IF t[i + 1] = ":" THEN i + 2 ELSE i + 3
      nls  == {j \in from..Len(t) : t[j] = "\n"}
      to   == IF nls = {} THEN Len(t) ELSE SetMin(nls) - 1
  IN  SubSeq(t, from, to)

\* C21: when the first line is no known tool name and some line starts with
\* "name:" or "name :" for a known tool, try_recover_plain_tool returns the
\* ToolCall of that tool (the first such line) whose input is the rest of
\* that line after the prefix, trimmed, for either form of the prefix.
C21_RecoverPrefixTool ==
  (pc = "returned" /\ ~FirstLineIsTool(arg) /\ ToolPrefixPositions(arg) # {}) =>
    LET i == SetMin(ToolPrefixPositions(arg))
    IN  ret.val = Some(ToolCall(<<arg[i]>>, trim(AfterToolPrefix(arg, i))))

\* C22: every call of tools::dispatch returns Ok(text): a failure inside a
\* tool is reported in the text, never as an Err.
C22_DispatchAlwaysOk ==
  (pc = "dispatch" /\ ret.some) => ret.val.ok

\* The <path> and the <content> of a write_file input "<path>\n<content>".
PathOfWrite(input) == SubSeq(input, 1, find(input, <<"\n">>) - 1)
ContentOfWrite(input) == From(input, find(input, <<"\n">>) + 1)

\* The last call was a write_file that reported the bytes it wrote.
WriteSucceeded ==
  /\ pc = "dispatch"
  /\ ret.some
  /\ arg[1] = <<"write_file">>
  /\ ret.val.ok
  /\ starts_with(ret.val.val, <<"[write_file: wrote ">>)

\* The step is a read_file of the <path> of the write_file just before it.
ReadsBackLastWrite ==
  /\ WriteSucceeded
  /\ arg'[1] = <<"read_file">>
  /\ arg'[2] = PathOfWrite(arg[2])

\* C23 as stated: for every path and content, a read_file of <path> right
\* after a succeeding write_file of "<path>\n<content>" returns the content.
C23_RoundTripEveryPath ==
  [][ReadsBackLastWrite => ret' = Some(Ok(ContentOfWrite(arg[2])))]_vars

\* C23: for every path that is not blank and every content, a read_file of
\* <path> right after a succeeding write_file of "<path>\n<content>" returns
\* exactly the content.
C23_RoundTripNonBlankPath ==
  [][(ReadsBackLastWrite /\ NonBlank(PathOfWrite(arg[2])) # {})
       => ret' = Some(Ok(ContentOfWrite(arg[2])))]_vars

\* C23 witness: a read_file of " f " has returned the content "a\n", which
\* only a write_file puts into the file.
C23_Witness ==
  /\ pc = "dispatch"
  /\ arg = << <<"read_file">>, <<" ", "f", " ">> >>
  /\ ret = Some(Ok(<<"a", "\n">>))

\* The positions of the marker lines of an edit_file input: the first "<<<"
\* and the first "===" after it, 0 when there is none.
OpenerAt(input) ==
  LET at == {i \in 1..Len(input) : input[i] = "<<<"}
  IN  IF at = {} THEN 0 ELSE SetMin(at)

SeparatorAt(input) ==
  LET at == {i \in 1..Len(input) : input[i] = "===" /\ i > OpenerAt(input)}
  IN  IF at = {} THEN 0 ELSE SetMin(at)

HasCloser(input) == input # <<>> /\ input[Len(input)] = ">>>"

\* The path, the search text and the replacement of an edit_file input that
\* has its opener and its separator.
PathOfEdit(input) == trim(SubSeq(input, 1, OpenerAt(input) - 2))
SearchOfEdit(input) == SubSeq(input, OpenerAt(input) + 2, SeparatorAt(input) - 2)
ReplacementOfEdit(input) ==
  LET n == Len(input)
      to == IF ~HasCloser(input) THEN n
            ELSE IF input[n - 1] = "\n" THEN n - 2 ELSE n - 1
  IN  SubSeq(input, SeparatorAt(input) + 2, to)

\* The places where search occurs in content.
Occurrences(content, search) ==
  {i \in 1..(Len(content) - Len(search) + 1) :
     SubSeq(content, i, i + Len(search) - 1) = search}

\* The step is an edit_file of an existing file, with an input that has the
\* opener and the separator.
EditsFile ==
  /\ pc = "dispatch"
  /\ arg'[1] = <<"edit_file">>
  /\ OpenerAt(arg'[2]) # 0
  /\ SeparatorAt(arg'[2]) # 0
  /\ PathOfEdit(arg'[2]) \in Names
  /\ fs[PathOfEdit(arg'[2])].kind = "file"

\* C24: edit_file replaces the first occurrence of the search text by the
\* replacement and leaves the bytes before and after it, and every other
\* file, as they were; when the search text does not occur it returns the
\* "not found" observation and changes no file.
C24_EditFirstOccurrence ==
  [][EditsFile =>
       LET path    == PathOfEdit(arg'[2])
           search  == SearchOfEdit(arg'[2])
           content == fs[path].content
           occ     == Occurrences(content, search)
       IN  IF occ = {}
           THEN /\ fs' = fs
                /\ ret' = Some(Ok(<<"[edit_file error: search string not found in ">>
                                    \o path \o <<"]">>))
           ELSE /\ fs' = [fs EXCEPT ![path] =
                            File(SubSeq(content, 1, SetMin(occ) - 1)
                                   \o ReplacementOfEdit(arg'[2])
                                   \o From(content, SetMin(occ) + Len(search)))]
                /\ ret' = Some(Ok(<<"[edit_file: applied edit to ">> \o path \o <<"]">>))
    ]_vars

\* C24 witness: the edit of "a" to "b" has been applied to the file "aba",
\* which now holds "bba".
C24_Witness ==
  /\ pc = "dispatch"
  /\ arg = << <<"edit_file">>,
              <<"f", "\n", "<<<", "\n", "a", "\n", "===", "\n", "b", "\n", ">>>">> >>
  /\ ret = Some(Ok(<<"[edit_file: applied edit to ", "f", "]">>))
  /\ fs[<<"f">>] = File(<<"b", "b", "a">>)

\* The first piece of every error text of edit_file.
EditErrorHeads ==
  { "[edit_file error: input must start with path then '<<<']",
    "[edit_file error: missing '===' separator]",
    "[edit_file error reading ",
    "[edit_file error: search string not found in ",
    "[edit_file error writing " }

\* C25: an edit_file whose input lacks the "<<<" opener, the "===" separator
\* or the ">>>" closer returns an "[edit_file error" text and changes no file.
C25_MalformedEditRejected ==
  [][(/\ pc = "dispatch"
      /\ arg'[1] = <<"edit_file">>
      /\ \/ OpenerAt(arg'[2]) = 0
         \/ SeparatorAt(arg'[2]) = 0
         \/ ~HasCloser(arg'[2]))
       => /\ fs' = fs
          /\ ret'.val.ok
          /\ ret'.val.val[1] \in EditErrorHeads
    ]_vars

\* C26: the values sent on the channel by a streaming invocation are tokens
\* followed by exactly one None: a None is the last value sent, and it has
\* been sent exactly when the invocation (stream_message and the caller's
\* wrapper) has ended.
C26_TokensThenOneNone ==
  /\ \A i \in 1..Len(chan) : chan[i] = None => i = Len(chan)
  /\ (pc = "done") = (chan # <<>> /\ chan[Len(chan)] = None)

\* C26 witness: an invocation has ended with a transport error after a token
\* had been delivered: the token, the error text, the None.
C26_Witness ==
  /\ pc = "done"
  /\ exit = "error"
  /\ Len(chan) = 3
  /\ chan[1] = Some(<<"a">>)
  /\ chan[3] = None

\* The step takes the next chunk from the byte stream.
IsChunkStep ==
  /\ pc = "select"
  /\ ready # <<>>
  /\ Head(ready).kind = "chunk"
  /\ ready' = Tail(ready)

\* C27 as stated: no chunk that arrives after the cancellation is turned
\* into tokens.
C27_NoLateChunkBecomesTokens ==
  [][(IsChunkStep /\ Head(ready).late) => chan' = chan]_vars

\* C27: when stream_message observes the cancellation (the select takes the
\* cancelled branch) it takes no further chunk, sends the terminal None and
\* returns; no step ever removes or changes a value already sent.
C27_CancelObserved ==
  [][/\ Len(chan') >= Len(chan) /\ SubSeq(chan', 1, Len(chan)) = chan
     /\ (exit # "cancelled" /\ exit' = "cancelled") =>
          /\ chan' = Append(chan, None)
          /\ ready' = ready
          /\ pc' = "done"
     /\ pc = "done" => (chan' = chan /\ ready' = ready)
    ]_vars

\* C27 witness: the call has returned on cancellation after a token, with a
\* chunk left unread in the byte stream.
C27_Witness ==
  /\ pc = "done"
  /\ exit = "cancelled"
  /\ chan = <<Some(<<"a">>), None>>
  /\ ready # <<>>
  /\ Head(ready).kind = "chunk"

\* A line that is neither JSON nor the [DONE] sentinel.
Malformed(line) == ~line.payload.json /\ ~IsDone(line.payload)

WellFormedOnly(lines) == SelectSeq(lines, LAMBDA l : ~Malformed(l))

\* The provider's branch reads this line as a delta that is not empty.
IsDelta(provider, line) ==
  /\ line.payload.json
  /\ IF provider = "Anthropic"
     THEN line.data_prefix /\ line.payload.v.delta_text.some
     ELSE \/ line.payload.v.choices_content.some /\ line.payload.v.choices_content.val # <<>>
          \/ /\ ~line.payload.v.choices_content.some
             /\ line.payload.v.message_content.some
             /\ line.payload.v.message_content.val # <<>>

DeltaOf(provider, line) ==
  IF provider = "Anthropic" THEN line.payload.v.delta_text.val
  ELSE IF line.payload.v.choices_content.some THEN line.payload.v.choices_content.val
  ELSE line.payload.v.message_content.val

RECURSIVE DeltaTokens(_, _)
\* The deltas of the lines, in order, as tokens.
DeltaTokens(provider, lines) ==
  IF lines = <<>> THEN <<>>
  ELSE (IF IsDelta(provider, Head(lines)) THEN <<Some(DeltaOf(provider, Head(lines)))>>
        ELSE <<>>) \o DeltaTokens(provider, Tail(lines))

HasTerminator(provider, lines) ==
  \E i \in 1..Len(lines) : IsTerminator(provider, lines[i])

\* C28: reading a chunk has the effect of reading it without its malformed
\* lines (same values sent, same continuation, no error), and in a chunk
\* without a terminator every delta line is delivered, in order.
C28_MalformedLinesSkipped ==
  [][IsChunkStep =>
       LET lines == TextLines(Head(ready).bytes)
           clean == ChunkLines(req.provider, WellFormedOnly(lines))
       IN  /\ chan' = chan \o clean.sent
           /\ (pc' = "done") = clean.returned
           /\ pc' # "failed"
           /\ ~HasTerminator(req.provider, lines) =>
                chan' = chan \o DeltaTokens(req.provider, lines)
    ]_vars

\* C28 witness: the OpenAI branch has read the chunk with a broken data line
\* and an empty line between two deltas, and has sent both deltas.
C28_Witness ==
  /\ pc = "select"
  /\ req.provider = "OpenAI"
  /\ arrived = 1
  /\ ready = <<>>
  /\ chan = <<Some(<<"a">>), Some(<<"b">>)>>

\* The tokens among the values sent.
TokensOf(sent) == SelectSeq(sent, LAMBDA m : m.some)

\* The lines up to the first terminator, all of them when there is none.
UpToTerminator(provider, lines) ==
  LET at == {i \in 1..Len(lines) : IsTerminator(provider, lines[i])}
  IN  IF at = {} THEN lines ELSE SubSeq(lines, 1, SetMin(at))

\* C29: once a terminator has been read ("data: [DONE]", or a JSON object
\* with done = true in the OpenAI-compatible branch), no further token is
\* sent: not for the lines after it in its chunk, not for later chunks.
C29_NoTokenAfterTerminator ==
  [][IsChunkStep =>
       IF seenTerminator
       THEN TokensOf(chan') = TokensOf(chan)
       ELSE TokensOf(chan') =
              TokensOf(chan)
                \o DeltaTokens(req.provider,
                               UpToTerminator(req.provider, TextLines(Head(ready).bytes)))
    ]_vars

\* The opening prefix a step of each kind comes from.
MarkerOf(st) ==
  CASE st.kind = "Thought" -> "<think"
    [] st.kind = "ToolCall" -> "<tool"
    [] st.kind = "Answer" -> "<answer"

RECURSIVE InMarkerOrder(_, _)
\* Every step of ss has its own opening marker in t, and the markers of the
\* steps stand in t in the order of the steps.
InMarkerOrder(ss, t) ==
  IF ss = <<>> THEN TRUE
  ELSE LET p == FirstIndex(t, {MarkerOf(Head(ss))})
       IN  p # 0 /\ InMarkerOrder(Tail(ss), SubSeq(t, p + 1, Len(t)))

\* C30: in a result of parse_steps an Answer step stands only in the last
\* place (so there is at most one), and the steps stand in the left-to-right
\* order of their markers in the text.
C30_StepsInMarkerOrder ==
  pc = "returned" =>
    /\ \A i \in 1..Len(ret.val) : ret.val[i].kind = "Answer" => i = Len(ret.val)
    /\ InMarkerOrder(ret.val, arg)

\* C30 witness: a tool block, a think block and an answer have been parsed
\* into three steps in that order.
C30_Witness ==
  /\ pc = "returned"
  /\ arg = ShellOpen \o <<"a", "\n">> \o ToolClose \o ThinkBlock \o AnswerBlock
  /\ ret.val = <<ToolCall(<<"shell">>, <<"a">>), Thought, Answer(<<"b">>)>>

\* C32: within one run nothing follows the terminator: once None has been
\* sent, no step sends anything more, dispatches a tool or calls the model.
C32_NothingAfterTerminator ==
  [][(\E i \in 1..Len(chan) : chan[i] = NoneMsg) =>
       /\ chan' = chan
       /\ dispatched' = dispatched
       /\ nCalls' = nCalls
    ]_vars

\* C32 witness: a run that dispatched a tool has ended at its second model
\* call with the raw response, the terminator last.
C32_Witness ==
  /\ pc = "done"
  /\ exit = "raw"
  /\ nCalls = 2
  /\ dispatched # <<>>
  /\ chan[Len(chan)] = NoneMsg

\* C33: at every model call of the run the last turn of the history passed
\* to the provider has the role user.
C33_UserTurnLastAtCall ==
  [][nCalls' = nCalls + 1 =>
       /\ history # <<>>
       /\ history[Len(history)][1] = "user"
    ]_vars

\* C33 witness: the third model call has been made with a tool observation
\* as the last turn, after a call made with the corrective instruction last.
C33_Witness ==
  /\ pc = "parse"
  /\ nCalls = 3
  /\ history[Len(history)][1] = "user"
  /\ starts_with(history[Len(history)][2], <<"<observation>">>)
  /\ \E i \in 1..Len(history) : history[i] = <<"user", NudgeText>>

\* The result of dispatch for a name that has no arm.
UnknownTool(name) == Ok(<<"[unknown tool: ">> \o name \o <<"]">>)

\* C34: every tool name try_recover_plain_tool returns is one of KNOWN_TOOLS,
\* and tools::dispatch routes every name of KNOWN_TOOLS, and so the name of
\* every recovered call, to a tool implementation, never to the unknown-tool
\* text.
C34_RecoveredToolIsRouted ==
  /\ \A i \in 1..Len(KNOWN_TOOLS) :
       \A input \in {<<>>, <<"a">>} :
         UnknownTool(<<KNOWN_TOOLS[i]>>) \notin dispatch(<<KNOWN_TOOLS[i]>>, input)
  /\ (pc = "returned" /\ ret.val.some) =>
       /\ IsKnownTool(ret.val.val.name)
       /\ UnknownTool(ret.val.val.name)
            \notin dispatch(ret.val.val.name, ret.val.val.input)

\* C34 witness: the call read_file with input a has been recovered from the
\* text "read_file:a"; dispatch has an arm for it.
C34_Witness ==
  /\ pc = "returned"
  /\ arg = <<"read_file", ":", "a">>
  /\ ret.val = Some(ToolCall(<<"read_file">>, <<"a">>))
  /\ \A r \in dispatch(<<"read_file">>, <<"a">>) : r # UnknownTool(<<"read_file">>)

\* C35: the tokens sent depend on the bytes of the response only, not on
\* their chunks: while the response is read, and when the call has returned
\* Ok, the tokens sent are those the branch sends for the bytes read so far
\* taken as one chunk.
C35_ChunkingIndependent ==
  (pc = "select" \/ (pc = "done" /\ exit \in {"eof", "done_flag", "cancelled"})) =>
    TokensOf(chan) = TokensOf(ChunkLines(req.provider, TextLines(consumed)).sent)

\* ---- the chat screen
\* The step is the ESC press that cancels the response.
EscCancels == app.streaming /\ ~app'.streaming /\ cancelled' # cancelled

\* The tasks that have not sent their terminator.
LiveTasks == {i \in 1..Len(tasks) : ~tasks[i].ended}

\* The number of user messages among the first n messages of the conversation.
UserTurns(n) == Cardinality({j \in 1..n : app.messages[j][1] = "user"})

\* C31: ESC twice to stop: the ESC press that cancels a streaming response is
\* never the first ESC press of that response (a single press only records the
\* time and shows the hint), it comes within 1 second of the recorded press,
\* and it leaves streaming false, last_esc_at cleared and app.cancel_token
\* replaced by a fresh token that is not cancelled.
C31_EscTwiceToStop ==
  [][/\ EscCancels =>
          /\ presses >= 1
          /\ app.last_esc_at.some /\ clock - app.last_esc_at.val <= 1
          /\ app'.last_esc_at = None
          /\ app'.cancel_token # app.cancel_token
          /\ app'.cancel_token \notin cancelled'
     /\ (app.streaming /\ presses = 0 /\ presses' = 1) =>
          /\ app'.streaming
          /\ app'.last_esc_at = Some(clock)
          /\ app'.status = HintStatus
          /\ cancelled' = cancelled]_vars

\* C36: at most one producer task is live at any time: no task is spawned
\* while an earlier one has not yet sent its terminator.
C36_AtMostOneLiveProducer == Cardinality(LiveTasks) <= 1

\* C37: app.streaming is true for as long as the most recently spawned
\* producer has neither sent its terminator nor been cancelled by the user.
C37_StreamingWhileLatestLive ==
  (/\ tasks # <<>>
   /\ ~tasks[Len(tasks)].ended
   /\ tasks[Len(tasks)].cancel \notin cancelled) => app.streaming

\* C38: every token appended to the conversation after the user message M
\* was produced by the task spawned for M.
C38_TokensBelongToLatestMessage ==
  \A j \in 1..Len(app.messages) :
    app.messages[j][1] = "assistant" =>
      \A n \in 1..Len(app.messages[j][2]) :
        app.messages[j][2][n] = UserTurns(j)

====
